---- MODULE Spec2Model ----
(***************************************************************************)
(* Model of the ScribeAI capture-and-delivery pipeline: the useRecorder    *)
(* hook (src/unnamed/part_001), the recorder state machine                 *)
(* (src/unnamed/part_003) and the parts of the Socket.io relay             *)
(* (src/unnamed/part_006) and REST routes the hook talks to.               *)
(*                                                                         *)
(* JavaScript runs one macrotask at a time.  Every action below is one     *)
(* macrotask (a user click, a timer, a media or socket event, a network    *)
(* reply) together with all the microtask continuations it releases: an    *)
(* async function runs until its next await on a pending promise.          *)
(***************************************************************************)
EXTENDS Integers, Sequences, FiniteSets, TLC

\* ---------------------------------------------------------------- bounds
MaxChunks == 2
MaxSessions == 1
MaxRestartSessions == 2
MaxRelaySessions == 2
MaxUsers == 2
MaxClock == 1
MaxJoins == 2
MaxChunkRequests == 3
MaxNotices == 2
MaxTrackEvents == 3
MaxChunkBytes == 3
MaxLinkEvents == 2
MaxSends == 6
MaxServerRequests == 3
MaxAudio == 2
\* RATE_WINDOW_MS (10 s, in ticks of the relay's clock), MAX_CHUNKS_PER_WINDOW
\* (40) and the size ceiling of a chunk (2 MiB), scaled down
RATE_WINDOW_MS == 0
MAX_CHUNKS_PER_WINDOW == 2
CHUNK_CEILING == 2
MaxTasks == 2
MaxSockets == 2
MaxRecorders == 2
MaxDrains == 2
MaxEvents == 1
MaxIndex == 3

NULL == 0

VARIABLES
  machine,                 \* useMachine(recorderMachine): value + context
  selectedSource,          \* useState<RecorderSource>
  networkStatus,           \* useState
  sessionStatus,           \* useState / sessionStatusRef
  error,                   \* useState<string | null>
  liveTranscripts,         \* useState<LiveTranscript[]>: the indices, newest first
  sessionIdRef, socketTokenRef, chunkQueueRef, uploadingRef, flushPromiseRef,
  chunkCounterRef, finalChunkPromiseRef, mediaRecorderRef, streamRef,
  trackCleanupRef, socketRef, joinedSessionRef, reconnectTimeoutRef,
  streamRestartPromiseRef,
  canUseSocket,            \* Boolean(SOCKET_ENDPOINT)
  online,                  \* navigator.onLine
  recorders,               \* MediaRecorder instances with their stream and track monitors
  sockets,                 \* socket.io client sockets with the relay's per-connection state
  drains,                  \* running flushQueue IIFEs
  tasks,                   \* running async functions of the hook (call stacks)
  nextSession,             \* number of recordings the server has created
  sessionCap,              \* number of recordings the server will create in this run
  relay,                   \* one connection of the relay seen from the server side
  nextChunk,               \* number of blobs captured so far
  events,                  \* environment events (faults, track events) used so far
  eventCap,                \* number of environment events of this run
  delivered,               \* history: successful deliveries, in order
  discarded,               \* history: chunks removed by discardPending
  joinLog,                 \* history: join-session messages emitted
  completions,             \* history: completion requests issued
  notice,                  \* history: the last relay notification received, and their number
  recoveryLog,             \* history: numbers of track events seen, of recoveries and of
                           \* stopRecording calls started
  reconnectTimers,         \* window.setTimeout: the pending 1.5 s timers, and how many
                           \* disconnects armed one, found one pending, or found no session
  sent,                    \* history: the last event an arbitrary caller sent to the
                           \* machine, and the number of such events
  server                   \* the row of one recording session in the database, and the
                           \* chunk and completion handlers running on it

hookVars == << machine, selectedSource, networkStatus, sessionStatus,
           sessionIdRef, socketTokenRef, chunkQueueRef, uploadingRef, flushPromiseRef,
           chunkCounterRef, finalChunkPromiseRef, mediaRecorderRef, streamRef,
           trackCleanupRef, socketRef, joinedSessionRef, reconnectTimeoutRef,
           streamRestartPromiseRef, canUseSocket, online, recorders, sockets, drains,
           tasks, nextSession, sessionCap, nextChunk, events, eventCap, delivered, discarded,
           joinLog, completions, error, liveTranscripts, notice, recoveryLog,
           reconnectTimers, sent >>

vars == << hookVars, relay, server >>

\* The whole state as one record, so that the hook's functions compose as
\* operators from state to state.  overflow marks a step that needs more
\* sockets, recorders, tasks or drains than the bounds allow.
Cur ==
  [ machine |-> machine, selectedSource |-> selectedSource,
    networkStatus |-> networkStatus, sessionStatus |-> sessionStatus,
    sessionIdRef |-> sessionIdRef, socketTokenRef |-> socketTokenRef,
    chunkQueueRef |-> chunkQueueRef, uploadingRef |-> uploadingRef,
    flushPromiseRef |-> flushPromiseRef, chunkCounterRef |-> chunkCounterRef,
    finalChunkPromiseRef |-> finalChunkPromiseRef, mediaRecorderRef |-> mediaRecorderRef,
    streamRef |-> streamRef, trackCleanupRef |-> trackCleanupRef, socketRef |-> socketRef,
    joinedSessionRef |-> joinedSessionRef, reconnectTimeoutRef |-> reconnectTimeoutRef,
    streamRestartPromiseRef |-> streamRestartPromiseRef, canUseSocket |-> canUseSocket,
    online |-> online, recorders |-> recorders, sockets |-> sockets, drains |-> drains,
    tasks |-> tasks, nextSession |-> nextSession, nextChunk |-> nextChunk,
    events |-> events, delivered |-> delivered, discarded |-> discarded,
    joinLog |-> joinLog, completions |-> completions, error |-> error,
    liveTranscripts |-> liveTranscripts, notice |-> notice, recoveryLog |-> recoveryLog,
    reconnectTimers |-> reconnectTimers, sent |-> sent,
    overflow |-> FALSE ]

Commit(n) ==
  /\ ~n.overflow
  /\ machine' = n.machine /\ selectedSource' = n.selectedSource
  /\ networkStatus' = n.networkStatus /\ sessionStatus' = n.sessionStatus
  /\ sessionIdRef' = n.sessionIdRef /\ socketTokenRef' = n.socketTokenRef
  /\ chunkQueueRef' = n.chunkQueueRef /\ uploadingRef' = n.uploadingRef
  /\ flushPromiseRef' = n.flushPromiseRef /\ chunkCounterRef' = n.chunkCounterRef
  /\ finalChunkPromiseRef' = n.finalChunkPromiseRef /\ mediaRecorderRef' = n.mediaRecorderRef
  /\ streamRef' = n.streamRef /\ trackCleanupRef' = n.trackCleanupRef
  /\ socketRef' = n.socketRef /\ joinedSessionRef' = n.joinedSessionRef
  /\ reconnectTimeoutRef' = n.reconnectTimeoutRef
  /\ streamRestartPromiseRef' = n.streamRestartPromiseRef
  /\ canUseSocket' = n.canUseSocket /\ online' = n.online
  /\ recorders' = n.recorders /\ sockets' = n.sockets /\ drains' = n.drains
  /\ tasks' = n.tasks /\ nextSession' = n.nextSession /\ nextChunk' = n.nextChunk
  /\ events' = n.events /\ delivered' = n.delivered /\ discarded' = n.discarded
  /\ joinLog' = n.joinLog /\ completions' = n.completions
  /\ error' = n.error /\ liveTranscripts' = n.liveTranscripts /\ notice' = n.notice
  /\ recoveryLog' = n.recoveryLog /\ reconnectTimers' = n.reconnectTimers
  /\ sent' = n.sent
  /\ UNCHANGED << sessionCap, eventCap, relay, server >>

\* ------------------------------------------------- recorder state machine
initialContext ==
  [ value |-> "idle", source |-> "mic", queuedChunks |-> 0, uploadedChunks |-> 0,
    error |-> "null" ]

Max(a, b) == IF a >= b THEN a ELSE b

setSource(m, source) ==
  [ m EXCEPT !.source = source, !.queuedChunks = 0, !.uploadedChunks = 0, !.error = "null" ]

incrementQueued(m) == [ m EXCEPT !.queuedChunks = m.queuedChunks + 1 ]

chunkUploadedNoFloor(m) ==
  [ m EXCEPT !.queuedChunks = m.queuedChunks - 1, !.uploadedChunks = m.uploadedChunks + 1 ]

chunkUploaded(m) ==
  [ m EXCEPT !.queuedChunks = Max(m.queuedChunks - 1, 0),
             !.uploadedChunks = m.uploadedChunks + 1 ]

captureError(m, message) == [ m EXCEPT !.error = message ]

\* recorderMachine: the transition taken by send({type: ev, ...}); an event
\* with no transition in the current state leaves the machine unchanged.
recorderMachine(m, ev, arg) ==
  CASE m.value = "idle" /\ ev = "START" -> [ setSource(m, arg) EXCEPT !.value = "recording" ]
    [] m.value = "idle" /\ ev = "RESET" -> initialContext
    [] m.value = "recording" /\ ev = "PAUSE" -> [ m EXCEPT !.value = "paused" ]
    [] m.value = "recording" /\ ev = "STOP" -> [ m EXCEPT !.value = "idle" ]
    [] m.value = "recording" /\ ev = "CHUNK_QUEUED" -> incrementQueued(m)
    [] m.value = "recording" /\ ev = "CHUNK_UPLOADED" -> chunkUploaded(m)
    [] m.value = "recording" /\ ev = "ERROR" -> [ captureError(m, arg) EXCEPT !.value = "error" ]
    [] m.value = "paused" /\ ev = "RESUME" -> [ m EXCEPT !.value = "recording" ]
    [] m.value = "paused" /\ ev = "STOP" -> [ m EXCEPT !.value = "idle" ]
    [] m.value = "paused" /\ ev = "ERROR" -> [ captureError(m, arg) EXCEPT !.value = "error" ]
    [] m.value = "error" /\ ev = "RESET" -> initialContext
    [] OTHER -> m

sendStopsAnywhere(s, ev, arg) ==
  [ s EXCEPT !.machine = IF ev = "STOP" THEN [ s.machine EXCEPT !.value = "idle" ]
                         ELSE recorderMachine(s.machine, ev, arg) ]

send(s, ev, arg) == [ s EXCEPT !.machine = recorderMachine(s.machine, ev, arg) ]

\* RecorderEvent (lines 17-25) with the values of its fields
NoSent == [ n |-> 0, type |-> "none", arg |-> "none" ]
RecorderEvents ==
  ({"START"} \X {"mic", "tab"})
    \cup ({"PAUSE", "RESUME", "STOP", "RESET", "CHUNK_QUEUED", "CHUNK_UPLOADED"} \X {"none"})
    \cup ({"ERROR"} \X {"upload", "media"})

\* ------------------------------------------------------ records and slots
NoChunk == [ id |-> 0, sess |-> 0 ]

\* A MediaRecorder with the stream it records and the monitorTrack listeners
\* of that stream.  pending counts dataavailable events queued by
\* requestData()/stop() and not yet dispatched.
NoRecorder ==
  [ state |-> "none", pending |-> 0, finalWait |-> FALSE, monitored |-> FALSE,
    muteTimer |-> "none", muted |-> FALSE, ended |-> FALSE, src |-> "mic" ]

\* A client socket and the relay's state for its connection.  cp is the
\* connectPromise of the ensureSocket call that created it, joinQ the
\* join-session messages the relay has not answered yet.
NoSocket ==
  [ st |-> "none", cp |-> "none", cpFor |-> 0, onceJoin |-> FALSE, joinQ |-> << >>,
    srvUser |-> FALSE, srvRoom |-> 0 ]

\* A flushQueue IIFE: wait is what it awaits (blob, connect, ack, rest),
\* res the outcome of that await once it has settled.
NoDrain ==
  [ pc |-> "idle", res |-> "wait", chunk |-> NoChunk, index |-> 0, k |-> 0, sess |-> 0 ]

\* A frame of an async function of the hook.
Frame(fn) ==
  [ fn |-> fn, pc |-> "begin", res |-> "ok", r |-> 0, k |-> 0, d |-> 0, sid |-> 0,
    v |-> "none", o |-> "ok" ]

RecorderIds == 1..MaxRecorders
SocketIds == 1..MaxSockets
DrainIds == 1..MaxDrains
TaskIds == 1..MaxTasks

MinOf(S) == CHOOSE x \in S : \A y \in S : x <= y

FreeRecorder(s) ==
  LET F == { r \in RecorderIds : s.recorders[r].state = "none" } IN IF F = {} THEN 0 ELSE MinOf(F)
FreeSocket(s) ==
  LET F == { k \in SocketIds : s.sockets[k].st = "none" } IN IF F = {} THEN 0 ELSE MinOf(F)
FreeDrain(s) ==
  LET F == { d \in DrainIds : s.drains[d].pc = "idle" } IN IF F = {} THEN 0 ELSE MinOf(F)
FreeTask(s) ==
  LET F == { t \in TaskIds : s.tasks[t] = << >> } IN IF F = {} THEN 0 ELSE MinOf(F)

Overflow(s) == [ s EXCEPT !.overflow = TRUE ]

Top(s, t) == s.tasks[t][Len(s.tasks[t])]
SetTop(s, t, f) == [ s EXCEPT !.tasks[t][Len(s.tasks[t])] = f ]
Push(s, t, f) == [ s EXCEPT !.tasks[t] = Append(@, f) ]
Spawn(s, f) ==
  LET t == FreeTask(s) IN IF t = 0 THEN Overflow(s) ELSE [ s EXCEPT !.tasks[t] = << f >> ]

\* return (res = "ok") or throw (res = "throw") from the top frame of task t:
\* the awaiting caller, if any, becomes ready with that result.
Return(s, t, res) ==
  LET n == Len(s.tasks[t]) IN
  IF n = 1 THEN [ s EXCEPT !.tasks[t] = << >> ]
  ELSE [ s EXCEPT !.tasks[t] = [ i \in 1..(n - 1) |->
                                   IF i = n - 1 THEN [ @[i] EXCEPT !.res = res ] ELSE @[i] ] ]

\* ------------------------------------------------------- media primitives
\* MediaRecorder.stop(), or every track of its stream being stopped: an active
\* recorder becomes inactive and queues a last dataavailable event.
StopRecorder(s, r) ==
  IF r # NULL /\ s.recorders[r].state \in {"recording", "paused"}
  THEN [ s EXCEPT !.recorders[r].state = "inactive", !.recorders[r].pending = @ + 1 ]
  ELSE s

\* MediaRecorder.requestData() on an active recorder
RequestData(s, r) == [ s EXCEPT !.recorders[r].pending = @ + 1 ]

\* trackCleanupRef.current?.(): the cleanup closure of the monitored stream
\* removes its listeners and clears its pending mute timer.
trackCleanup(s) ==
  IF s.trackCleanupRef = NULL THEN s
  ELSE [ s EXCEPT !.recorders[s.trackCleanupRef].monitored = FALSE,
                  !.recorders[s.trackCleanupRef].muteTimer = "none",
                  !.trackCleanupRef = NULL ]

resetMedia(s) ==
  LET s1 == trackCleanup(s)
      s2 == StopRecorder(StopRecorder(s1, s1.mediaRecorderRef), s1.streamRef)
  IN [ s2 EXCEPT !.mediaRecorderRef = NULL, !.streamRef = NULL,
                 !.chunkQueueRef = << >>, !.uploadingRef = FALSE, !.chunkCounterRef = 0 ]

\* socket.removeAllListeners(); socket.disconnect(): nothing the closed
\* socket still owes (a connectPromise, an ack) can settle any more.
CloseSocket(s, k) ==
  [ s EXCEPT !.sockets[k] = NoSocket,
             !.drains = [ d \in DrainIds |->
                 IF @[d].pc \in {"connect", "ack"} /\ @[d].k = k /\ @[d].res = "wait"
                 THEN [ @[d] EXCEPT !.pc = "hung", !.k = 0 ] ELSE @[d] ],
             !.tasks = [ t \in TaskIds |->
                 [ i \in 1..Len(@[t]) |->
                     IF @[t][i].pc \in {"sock_connect", "sock_ack"} /\ @[t][i].k = k
                        /\ @[t][i].res = "wait"
                     THEN [ @[t][i] EXCEPT !.pc = "hung", !.k = 0 ] ELSE @[t][i] ] ] ]

disconnectSocket(s) ==
  LET s1 == IF s.socketRef = NULL THEN s ELSE CloseSocket(s, s.socketRef)
  IN [ s1 EXCEPT !.socketRef = NULL, !.joinedSessionRef = NULL ]

flushRecorderBuffer(s) ==
  LET r == s.mediaRecorderRef IN
  IF r = NULL THEN s
  ELSE IF s.recorders[r].state \in {"recording", "paused"} THEN RequestData(s, r) ELSE s

clearSessionState(s, resetMachine) ==
  LET s1 == resetMedia(s)
      s2 == [ s1 EXCEPT !.sessionIdRef = NULL, !.socketTokenRef = NULL,
                        !.joinedSessionRef = NULL ]
      s3 == disconnectSocket(s2)
      s4 == [ s3 EXCEPT !.chunkQueueRef = << >>, !.chunkCounterRef = 0,
                        !.liveTranscripts = << >> ]
  IN IF resetMachine THEN send(s4, "RESET", "none") ELSE s4

\* ------------------------------------------------------------- transport
\* socket.emit("join-session", payload): logged, and queued for the relay
EmitJoin(s, k, payload, rejoin) ==
  [ s EXCEPT !.sockets[k].joinQ = Append(@, payload),
             !.joinLog = @ \cup { [ sessionId |-> payload.sessionId, token |-> payload.token,
                                    rejoin |-> rejoin ] } ]

\* the payload of the join emitted on an already connected socket (line 181)
\* and of the join emitted by a new socket once it connects (line 266)
RejoinPayload(s, recordingId) == [ sessionId |-> recordingId, token |-> NULL ]
JoinPayload(s, recordingId) == [ sessionId |-> recordingId, token |-> s.socketTokenRef ]

\* ensureSocket(recordingId) up to its return: mode "now" returns the connected
\* socket k, "pending" returns the connectPromise of the new socket k, "throw"
\* rejects.
ensureSocket(s, recordingId) ==
  IF ~s.canUseSocket THEN [ s |-> s, k |-> 0, mode |-> "throw" ]
  ELSE IF s.socketRef # NULL /\ s.sockets[s.socketRef].st = "up"
  THEN LET k == s.socketRef
           s1 == IF s.joinedSessionRef # recordingId
                 THEN [ EmitJoin(s, k, RejoinPayload(s, recordingId), TRUE)
                          EXCEPT !.joinedSessionRef = recordingId ]
                 ELSE s
       IN [ s |-> s1, k |-> k, mode |-> "now" ]
  ELSE LET k == FreeSocket(s) IN
       IF k = 0 THEN [ s |-> Overflow(s), k |-> 0, mode |-> "throw" ]
       ELSE [ s |-> [ s EXCEPT !.socketRef = k,
                               !.sockets[k] = [ NoSocket EXCEPT !.st = "down", !.cp = "pending",
                                                                !.cpFor = recordingId,
                                                                !.onceJoin = TRUE ] ],
              k |-> k, mode |-> "pending" ]

\* ------------------------------------------------------- delivery queue
\* flushQueue without its guard against a running drain
FlushRunningIgnored(s) == FALSE

\* line 325: a drain is already running
FlushRunning(s) == s.flushPromiseRef # NULL

\* the end of the IIFE (line 363) and its finally (line 369); the tasks
\* awaiting this drain's promise become ready
DrainEnd(s, d) ==
  [ s EXCEPT !.uploadingRef = FALSE, !.flushPromiseRef = NULL, !.drains[d] = NoDrain,
             !.tasks = [ t \in TaskIds |->
                 [ i \in 1..Len(@[t]) |->
                     IF @[t][i].pc = "flush" /\ @[t][i].d = d /\ @[t][i].res = "wait"
                     THEN [ @[t][i] EXCEPT !.res = "ok", !.d = 0 ] ELSE @[t][i] ] ] ]

\* the sequence index of the next attempt (lines 347-348)
NextIndex(s) == s.chunkCounterRef + 1

\* a drain that never looks at navigator.onLine
HostOfflineIgnored(s) == FALSE

\* line 337: !navigator.onLine
HostOffline(s) == ~s.online

\* the while loop of flushQueue (lines 336-350) up to the first await of
\* uploadChunk (blobToBase64)
DrainLoop(s, d) ==
  IF s.sessionIdRef # NULL /\ Len(s.chunkQueueRef) > 0
  THEN IF HostOffline(s)
       THEN DrainEnd([ s EXCEPT !.networkStatus = "offline" ], d)
       ELSE LET chunk == Head(s.chunkQueueRef)
                index == NextIndex(s)
            IN IF index > MaxIndex THEN Overflow(s) ELSE
               [ s EXCEPT !.networkStatus = "online",
                          !.chunkQueueRef = Tail(@),
                          !.chunkCounterRef = index,
                          !.drains[d] = [ NoDrain EXCEPT !.pc = "blob", !.chunk = chunk,
                                                         !.index = index ] ]
  ELSE DrainEnd(s, d)

\* a failed chunk put back behind the chunks captured after it
RequeueAtTail(q, chunk) == Append(q, chunk)

\* the queue after a failed attempt (line 356)
Requeue(q, chunk) == << chunk >> \o q

\* the catch block of flushQueue (lines 354-360)
DrainFail(s, d) ==
  LET s1 == [ s EXCEPT !.chunkQueueRef = Requeue(@, s.drains[d].chunk) ]
  IN DrainEnd([ send(s1, "ERROR", "upload") EXCEPT !.error = "upload" ], d)

\* lines 351-353, then the next iteration
DrainSuccess(s, d) ==
  LET s1 == [ s EXCEPT !.delivered = Append(@, [ chunk |-> s.drains[d].chunk,
                                                 index |-> s.drains[d].index,
                                                 sess |-> s.drains[d].sess ]) ]
  IN DrainLoop(send(s1, "CHUNK_UPLOADED", "none"), d)

\* socket.emit("audio-chunk", {sessionId: sessionIdRef.current, ..., token}, ack)
EmitChunk(s, d, k) ==
  [ s EXCEPT !.drains[d].pc = "ack", !.drains[d].res = "wait", !.drains[d].k = k,
             !.drains[d].sess = s.sessionIdRef ]

\* uploadChunk after blobToBase64 (lines 298-319)
UploadAfterBlob(s, d) ==
  IF s.canUseSocket
  THEN LET es == ensureSocket(s, s.sessionIdRef) IN
       CASE es.mode = "now" -> EmitChunk(es.s, d, es.k)
         [] es.mode = "pending" ->
              [ es.s EXCEPT !.drains[d].pc = "connect", !.drains[d].res = "wait",
                            !.drains[d].k = es.k ]
         [] OTHER -> DrainFail(es.s, d)
  ELSE [ s EXCEPT !.drains[d].pc = "rest", !.drains[d].res = "wait",
                  !.drains[d].sess = s.sessionIdRef ]

\* one continuation of a drain whose await has settled
DrainStep(s, d) ==
  LET dr == s.drains[d] IN
  CASE dr.res = "throw" -> DrainFail(s, d)
    [] dr.res = "ok" /\ dr.pc = "blob" -> UploadAfterBlob(s, d)
    [] dr.res = "ok" /\ dr.pc = "connect" -> EmitChunk(s, d, dr.k)
    [] dr.res = "ok" /\ dr.pc \in {"ack", "rest"} -> DrainSuccess(s, d)
    [] OTHER -> s

flushQueue(s) ==
  IF FlushRunning(s) THEN s
  ELSE IF s.sessionIdRef = NULL \/ (Len(s.chunkQueueRef) = 0 /\ ~s.uploadingRef) THEN s
  ELSE LET d == FreeDrain(s) IN
       IF d = 0 THEN Overflow(s)
       ELSE DrainLoop([ s EXCEPT !.uploadingRef = TRUE, !.flushPromiseRef = d,
                                 !.drains[d].pc = "start" ], d)

discardPending(s) ==
  LET s1 == [ s EXCEPT !.discarded = @ \cup { s.chunkQueueRef[i].id : i \in 1..Len(s.chunkQueueRef) },
                       !.chunkQueueRef = << >> ]
  IN send(s1, "RESET", "none")

\* handleData for a non-empty blob (lines 388-394)
handleData(s) ==
  LET chunk == [ id |-> s.nextChunk + 1, sess |-> s.sessionIdRef ]
      s1 == [ s EXCEPT !.chunkQueueRef = Append(@, chunk), !.nextChunk = @ + 1 ]
  IN flushQueue(send(s1, "CHUNK_QUEUED", "none"))

\* ------------------------------------------------- async functions' steps
Goto(s, t, f, pc) == SetTop(s, t, [ f EXCEPT !.pc = pc, !.res = "ok" ])
Await(s, t, f, pc) == SetTop(s, t, [ f EXCEPT !.pc = pc, !.res = "wait" ])
Call(s, t, f, retpc, fn) == Push(Await(s, t, f, retpc), t, Frame(fn))

InFlight(s) == Cardinality({ d \in DrainIds : s.drains[d].pc \in {"blob", "connect", "ack", "rest", "hung"} })

DeliveredIn(s, sess) ==
  Cardinality({ i \in 1..Len(s.delivered) : s.delivered[i].sess = sess })

\* history of a completion request (complete-session emit or REST POST)
LogCompletion(s, via) ==
  [ s EXCEPT !.completions = Append(@, [ sess |-> s.sessionIdRef, via |-> via,
                                         queued |-> Len(s.chunkQueueRef) + InFlight(s),
                                         uploaded |-> s.machine.uploadedChunks,
                                         deliveredN |-> DeliveredIn(s, s.sessionIdRef) ]) ]

\* stopRecording (lines 637-670)
stopRecording(s, t, f) ==
  CASE f.pc = "begin" ->
         LET s1 == [ s EXCEPT !.sessionStatus = "processing", !.recoveryLog.stops = @ + 1 ]
             r == s.mediaRecorderRef
         IN IF r # NULL /\ s.recorders[r].state # "inactive"
            THEN Await(RequestData([ s1 EXCEPT !.finalChunkPromiseRef = r,
                                               !.recorders[r].finalWait = TRUE ], r),
                       t, [ f EXCEPT !.r = r ], "timer50")
            ELSE Goto(flushRecorderBuffer(s1), t, f, "checkFinal")
    [] f.pc = "timer50" -> Goto(StopRecorder(s, f.r), t, f, "checkFinal")
    [] f.pc = "checkFinal" ->
         IF s.finalChunkPromiseRef # NULL
         THEN IF s.recorders[s.finalChunkPromiseRef].finalWait
              THEN Await(s, t, [ f EXCEPT !.r = s.finalChunkPromiseRef ], "final")
              ELSE Goto([ s EXCEPT !.finalChunkPromiseRef = NULL ], t, f, "sendStop")
         ELSE Goto(s, t, f, "sendStop")
    [] f.pc = "final" -> Goto([ s EXCEPT !.finalChunkPromiseRef = NULL ], t, f, "sendStop")
    [] f.pc = "sendStop" ->
         LET s1 == flushQueue(send(s, "STOP", "none")) IN
         IF s1.flushPromiseRef # NULL
         THEN Await(s1, t, [ f EXCEPT !.d = s1.flushPromiseRef ], "flush")
         ELSE Goto(s1, t, f, "complete")
    [] f.pc = "flush" -> Goto(s, t, f, "complete")
    [] f.pc = "complete" -> Call(s, t, f, "returned", "complete")
    [] OTHER -> Return(s, t, "ok")

\* socket.emit("complete-session", {sessionId, token}, ack)
EmitComplete(s, t, f, k) ==
  Await(LogCompletion(s, "socket"), t, [ f EXCEPT !.k = k, !.sid = s.sessionIdRef ], "sock_ack")

\* line 618: if (!completionSucceeded)
NeedsRest(f) == f.v # "succeeded"

\* completeSession (lines 600-635)
completeSession(s, t, f) ==
  CASE f.pc = "begin" ->
         IF s.sessionIdRef = NULL THEN Return(s, t, "ok")
         ELSE IF s.canUseSocket
         THEN LET es == ensureSocket(s, s.sessionIdRef) IN
              CASE es.mode = "now" -> EmitComplete(es.s, t, f, es.k)
                [] es.mode = "pending" -> Await(es.s, t, [ f EXCEPT !.k = es.k ], "sock_connect")
                [] OTHER -> Goto(es.s, t, f, "rest_start")
         ELSE Goto(s, t, f, "rest_start")
    [] f.pc = "sock_connect" ->
         IF f.res = "ok" THEN EmitComplete(s, t, f, f.k) ELSE Goto(s, t, f, "rest_start")
    [] f.pc = "sock_ack" ->
         LET g == IF f.res = "ok" THEN [ f EXCEPT !.v = "succeeded" ] ELSE f
         IN Goto(s, t, g, IF NeedsRest(g) THEN "rest_start" ELSE "finally")
    [] f.pc = "rest_start" ->
         Await(LogCompletion(s, "rest"), t, [ f EXCEPT !.sid = s.sessionIdRef ], "rest")
    [] f.pc = "rest" ->
         Goto(IF f.res = "ok" THEN s ELSE [ s EXCEPT !.error = "complete" ], t,
              [ f EXCEPT !.v = IF f.res = "ok" THEN "succeeded" ELSE "failed" ], "finally")
    [] OTHER ->
         LET s1 == IF f.v = "succeeded" THEN [ s EXCEPT !.sessionStatus = "completed" ] ELSE s
             s2 == clearSessionState(s1, TRUE)
         IN Return([ s2 EXCEPT !.sessionStatus = "idle" ], t, "ok")

\* requestStream (lines 399-586); f.v is the source, f.o the outcome of
\* building the recorder
requestStream(s, t, f) ==
  CASE f.pc = "begin" ->
         LET s1 == IF s.streamRef # NULL
                   THEN [ StopRecorder(s, s.streamRef) EXCEPT !.streamRef = NULL ] ELSE s
             s2 == trackCleanup(s1)
         IN Await(s2, t, [ f EXCEPT !.v = s.selectedSource ],
                  IF s.selectedSource = "mic" THEN "gum" ELSE "gdm")
    [] f.pc = "gdm" /\ f.res = "ok" -> Await(s, t, f, "gum2")
    [] f.pc \in {"gum", "gum2"} /\ f.res = "ok" /\ f.o = "ok" ->
         LET r == FreeRecorder(s) IN
         IF r = 0 THEN Overflow(s)
         ELSE Return([ s EXCEPT !.recorders[r] = [ NoRecorder EXCEPT !.state = "recording",
                                                                     !.monitored = TRUE,
                                                                     !.src = f.v ],
                                !.streamRef = r, !.trackCleanupRef = r,
                                !.mediaRecorderRef = r ], t, "ok")
    [] f.pc \in {"gum", "gum2"} /\ f.res = "ok" ->
         Return(send([ s EXCEPT !.mediaRecorderRef = NULL, !.streamRef = NULL,
                                !.trackCleanupRef = NULL, !.error = "media" ],
                     "ERROR", "media"), t, "throw")
    [] OTHER -> Return(send([ trackCleanup(s) EXCEPT !.error = "media" ], "ERROR", "media"),
                       t, "throw")

\* an ensureMediaRecorder that rebuilds whatever is not recording
ensureMediaRecorderRebuilds(s, t, f, retpc) ==
  IF s.sessionIdRef = NULL THEN Goto(s, t, f, retpc)
  ELSE LET r == s.mediaRecorderRef IN
       IF r = NULL \/ s.recorders[r].state # "recording"
       THEN Call(s, t, f, retpc, "media")
       ELSE Goto(s, t, f, retpc)

\* ensureMediaRecorder (lines 680-703), called from frame f which continues at retpc
ensureMediaRecorder(s, t, f, retpc) ==
  IF s.sessionIdRef = NULL THEN Goto(s, t, f, retpc)
  ELSE LET r == s.mediaRecorderRef IN
       IF r = NULL \/ s.recorders[r].state = "inactive"
       THEN Call(s, t, f, retpc, "media")
       ELSE IF s.recorders[r].state = "paused" /\ s.machine.value = "recording"
       THEN Goto([ s EXCEPT !.recorders[r].state = "recording" ], t, f, retpc)
       ELSE Goto(s, t, f, retpc)

\* startRecording (lines 705-732)
startRecording(s, t, f) ==
  CASE f.pc = "begin" ->
         LET s1 == [ s EXCEPT !.error = "null", !.sessionStatus = "recording" ] IN
         IF s.sessionIdRef # NULL THEN Call(s1, t, f, "create", "stop")
         ELSE Goto(s1, t, f, "create")
    [] f.pc = "create" -> Await(s, t, f, "created")
    [] f.pc = "created" /\ f.res = "ok" ->
         LET s1 == send([ s EXCEPT !.sessionIdRef = f.sid, !.socketTokenRef = f.sid,
                                   !.liveTranscripts = << >> ],
                        "START", s.selectedSource)
         IN IF s.canUseSocket
            THEN LET es == ensureSocket(s1, f.sid) IN
                 IF es.mode = "pending" THEN Await(es.s, t, [ f EXCEPT !.k = es.k ], "sock_connect")
                 ELSE Goto(es.s, t, f, "media")
            ELSE Goto(s1, t, f, "media")
    [] f.pc = "sock_connect" -> Goto(s, t, f, "media")
    [] f.pc = "media" -> Call(s, t, f, "media_ret", "media")
    [] f.pc = "media_ret" /\ f.res = "ok" -> Return(s, t, "ok")
    [] OTHER ->
         Return(clearSessionState([ s EXCEPT !.error = IF f.pc = "created" THEN "create"
                                                        ELSE "media",
                                             !.sessionStatus = "failed" ], TRUE), t, "ok")

\* the async body of autoRecoverRef.current (lines 775-789)
recoverBody(s, t, f) ==
  CASE f.pc = "begin" -> ensureMediaRecorder(s, t, f, "media_ret")
    [] f.pc = "media_ret" /\ f.res = "throw" ->
         Call([ s EXCEPT !.error = "media" ], t, f, "finally", "stop")
    [] OTHER -> Return([ s EXCEPT !.streamRestartPromiseRef = FALSE ], t, "ok")

\* reconnectSession (lines 797-811)
reconnectSession(s, t, f) ==
  CASE f.pc = "begin" ->
         IF s.sessionIdRef = NULL THEN Return(s, t, "ok")
         ELSE IF s.canUseSocket
         THEN LET es == ensureSocket(s, s.sessionIdRef) IN
              IF es.mode = "pending" THEN Await(es.s, t, [ f EXCEPT !.k = es.k ], "sock_connect")
              ELSE Goto(es.s, t, f, "media")
         ELSE Goto(s, t, f, "media")
    [] f.pc = "sock_connect" -> Goto(s, t, f, "media")
    [] f.pc = "media" -> ensureMediaRecorder(s, t, f, "media_ret")
    [] f.pc = "media_ret" /\ f.res = "throw" -> Return(s, t, "throw")
    [] f.pc = "media_ret" ->
         LET s1 == flushQueue(s) IN
         IF s1.flushPromiseRef # NULL
         THEN Await(s1, t, [ f EXCEPT !.d = s1.flushPromiseRef ], "flush")
         ELSE Return(s1, t, "ok")
    [] OTHER -> Return(s, t, "ok")

\* one continuation of the running function of task t
TaskStep(s, t) ==
  LET f == Top(s, t) IN
  CASE f.fn = "start" -> startRecording(s, t, f)
    [] f.fn = "stop" -> stopRecording(s, t, f)
    [] f.fn = "complete" -> completeSession(s, t, f)
    [] f.fn = "media" -> requestStream(s, t, f)
    [] f.fn = "recover" -> recoverBody(s, t, f)
    [] OTHER -> reconnectSession(s, t, f)

ReadyDrains(s) == { d \in DrainIds : s.drains[d].pc \notin {"idle", "hung"} /\ s.drains[d].res # "wait" }
ReadyTasks(s) == { t \in TaskIds : s.tasks[t] # << >> /\ Top(s, t).res # "wait" }

\* run every continuation that is ready, as the microtask queue does
RECURSIVE RunReady(_)
RunReady(s) ==
  IF s.overflow THEN s
  ELSE IF ReadyDrains(s) # {} THEN RunReady(DrainStep(s, MinOf(ReadyDrains(s))))
  ELSE IF ReadyTasks(s) # {} THEN RunReady(TaskStep(s, MinOf(ReadyTasks(s))))
  ELSE s

\* the guard of autoRecoverRef.current against a recovery in progress (line 772)
RecoveryRunning(s) == s.streamRestartPromiseRef

\* autoRecoverRef.current(reason) (lines 763-789)
autoRecover(s) ==
  IF s.sessionIdRef = NULL THEN s
  ELSE IF s.sessionStatus \in {"processing", "completed", "failed"} THEN s
  ELSE IF RecoveryRunning(s) THEN s
  ELSE Spawn([ s EXCEPT !.streamRestartPromiseRef = TRUE, !.recoveryLog.started = @ + 1 ],
             Frame("recover"))

\* handleReconnect (lines 813-816): void reconnectSession()
handleReconnect(s) == Spawn(s, Frame("reconnect"))

\* ------------------------------------------------- relay notifications
NoNotice == [ n |-> 0, type |-> "none", sessionId |-> 0, text |-> FALSE ]

\* a handler that does not compare the session id
NoticeForAny(s, sessionId) == TRUE

\* payload.sessionId === sessionIdRef.current (lines 195, 205, 214)
NoticeForCurrent(s, sessionId) == sessionId = s.sessionIdRef

\* addTranscript (lines 99-104); the slice to 20 entries is beyond MaxNotices
addTranscript(s, index) == [ s EXCEPT !.liveTranscripts = << index >> \o @ ]

\* socket.on("chunk-transcribed") (lines 194-202)
onChunkTranscribed(s, payload) ==
  IF NoticeForCurrent(s, payload.sessionId) /\ payload.text
  THEN LET s1 == addTranscript(s, payload.index) IN
       IF s.sessionStatus \notin {"processing", "completed"}
       THEN [ s1 EXCEPT !.sessionStatus = "recording" ] ELSE s1
  ELSE s

\* socket.on("chunk-error") (lines 204-211)
onChunkError(s, payload) ==
  IF NoticeForCurrent(s, payload.sessionId)
  THEN [ s EXCEPT !.error = "socket", !.sessionStatus = "failed" ]
  ELSE s

\* socket.on("session-status") (lines 213-225)
onSessionStatus(s, payload) ==
  IF NoticeForCurrent(s, payload.sessionId)
  THEN IF payload.status = "completed" THEN [ s EXCEPT !.sessionStatus = "idle" ]
       ELSE IF payload.status \in {"idle", "recording", "paused", "processing", "failed"}
       THEN [ s EXCEPT !.sessionStatus = payload.status ]
       ELSE s
  ELSE s

\* ------------------------------------------------------------ the relay
\* verifySocketToken: a token is the id of the session it was signed for
TokenValid(token) == token # NULL
TokenSession(token) == token

\* join-session handler (part_006 lines 80-108)
JoinAccepted(s, msg) ==
  /\ msg.sessionId # NULL /\ msg.token # NULL
  /\ TokenValid(msg.token) /\ TokenSession(msg.token) = msg.sessionId
  /\ msg.sessionId <= s.nextSession

\* audio-chunk and complete-session gates (part_006 lines 113-146, 217-240):
\* the payload carries the session id and the token of that session
MessageAccepted(s, k, sess) ==
  /\ sess # NULL
  /\ TokenValid(sess)
  /\ s.sockets[k].srvUser
  /\ sess <= s.nextSession

\* a connectPromise settles: whoever awaits it becomes ready
SettleConnect(s, k, res) ==
  [ s EXCEPT !.sockets[k].cp = "none",
             !.drains = [ d \in DrainIds |->
                 IF @[d].pc = "connect" /\ @[d].k = k /\ @[d].res = "wait"
                 THEN [ @[d] EXCEPT !.res = res ] ELSE @[d] ],
             !.tasks = [ t \in TaskIds |->
                 [ i \in 1..Len(@[t]) |->
                     IF @[t][i].pc = "sock_connect" /\ @[t][i].k = k /\ @[t][i].res = "wait"
                     THEN [ @[t][i] EXCEPT !.res = res ] ELSE @[t][i] ] ] ]

\* an ack that was outstanding when the transport dropped is never called
LoseAcks(s, k) ==
  [ s EXCEPT !.drains = [ d \in DrainIds |->
                 IF @[d].pc = "ack" /\ @[d].k = k /\ @[d].res = "wait"
                 THEN [ @[d] EXCEPT !.pc = "hung", !.k = 0 ] ELSE @[d] ],
             !.tasks = [ t \in TaskIds |->
                 [ i \in 1..Len(@[t]) |->
                     IF @[t][i].pc = "sock_ack" /\ @[t][i].k = k /\ @[t][i].res = "wait"
                     THEN [ @[t][i] EXCEPT !.pc = "hung", !.k = 0 ] ELSE @[t][i] ] ] ]

\* socket.on("disconnect") (lines 227-236)
ReconnectDueAgain(s) == s.sessionIdRef # NULL

ReconnectDue(s) == s.sessionIdRef # NULL /\ ~s.reconnectTimeoutRef

onDisconnect(s) ==
  LET s1 == [ s EXCEPT !.joinedSessionRef = NULL ]
  IN IF ReconnectDue(s1)
     THEN [ s1 EXCEPT !.reconnectTimeoutRef = TRUE,
                      !.reconnectTimers.pending = @ + 1,
                      !.reconnectTimers.armed = @ + 1 ]
     ELSE IF s1.sessionIdRef # NULL
          THEN [ s1 EXCEPT !.reconnectTimers.ignored = @ + 1 ]
          ELSE [ s1 EXCEPT !.reconnectTimers.idle = @ + 1 ]

Event(s) == [ s EXCEPT !.events = @ + 1 ]
Resume(s, t, res) == SetTop(s, t, [ Top(s, t) EXCEPT !.res = res ])
Waiting(t, fn, pcs) ==
  /\ tasks[t] # << >>
  /\ tasks[t][Len(tasks[t])].fn = fn
  /\ tasks[t][Len(tasks[t])].pc \in pcs
  /\ tasks[t][Len(tasks[t])].res = "wait"
Starting == Cardinality({ t \in TaskIds : tasks[t] # << >> /\ tasks[t][1].fn = "start"
                                          /\ tasks[t][Len(tasks[t])].pc \notin {"media_ret", "gum", "gdm", "gum2"} })

\* ------------------------------------------------------------- actions
\* user controls, enabled as the panel enables its buttons (part_002 lines 82-84, 189, 256)
UserStart ==
  /\ machine.value \notin {"recording", "paused"}
  /\ nextSession + Starting < sessionCap
  /\ Commit(RunReady(Spawn(Cur, Frame("start"))))

UserStop ==
  /\ machine.value \in {"recording", "paused"}
  /\ Commit(RunReady(Spawn(Cur, Frame("stop"))))

\* pauseRecording (lines 745-752); MediaRecorder.pause() throws on an inactive recorder
pauseRecording(s) ==
  LET s1 == flushRecorderBuffer(s)
      r == s.mediaRecorderRef
  IN IF r # NULL /\ s.recorders[r].state = "inactive" THEN s1
     ELSE LET s2 == IF r # NULL THEN [ s1 EXCEPT !.recorders[r].state = "paused" ] ELSE s1
          IN flushQueue([ send(s2, "PAUSE", "none") EXCEPT !.sessionStatus = "paused" ])

\* resumeRecording (lines 754-759); MediaRecorder.resume() throws on an inactive recorder
resumeRecording(s) ==
  LET r == s.mediaRecorderRef IN
  IF r # NULL /\ s.recorders[r].state = "inactive" THEN s
  ELSE LET s1 == IF r # NULL THEN [ s EXCEPT !.recorders[r].state = "recording" ] ELSE s
       IN [ send(s1, "RESUME", "none") EXCEPT !.sessionStatus = "recording" ]

UserPause ==
  /\ machine.value = "recording"
  /\ events < eventCap
  /\ Commit(RunReady(pauseRecording(Event(Cur))))

UserResume ==
  /\ machine.value = "paused"
  /\ Commit(RunReady(resumeRecording(Cur)))

UserDiscard ==
  /\ events < eventCap
  /\ Commit(RunReady(discardPending(Event(Cur))))

\* retryPending: () => void flushQueue()
UserRetry ==
  /\ Len(chunkQueueRef) > 0
  /\ Commit(RunReady(flushQueue(Cur)))

\* setSelectedSource and the effect of lines 162-171
sourceEffect(s, src) ==
  LET s1 == [ s EXCEPT !.selectedSource = src ] IN
  IF s.machine.value \notin {"recording", "paused"} THEN clearSessionState(s1, TRUE) ELSE s1

UserSelectSource ==
  /\ machine.value # "recording"
  /\ events < eventCap
  /\ \E src \in {"mic", "tab"} :
       /\ src # selectedSource
       /\ Commit(RunReady(sourceEffect(Event(Cur), src)))

\* the dataavailable listener of stopRecording (lines 643-647) resolves finalChunkPromise
FinalChunk(s, r) ==
  [ s EXCEPT !.recorders[r].finalWait = FALSE,
             !.tasks = [ t \in TaskIds |->
                 [ i \in 1..Len(@[t]) |->
                     IF @[t][i].pc = "final" /\ @[t][i].r = r /\ @[t][i].res = "wait"
                     THEN [ @[t][i] EXCEPT !.res = "ok" ] ELSE @[t][i] ] ] ]

\* a recorder that was stopped, has delivered its last event and is no longer
\* referenced is garbage
Collect(s) ==
  [ s EXCEPT !.recorders = [ r \in RecorderIds |->
      IF /\ @[r].state = "inactive" /\ @[r].pending = 0 /\ ~@[r].monitored /\ ~@[r].finalWait
         /\ s.mediaRecorderRef # r /\ s.streamRef # r /\ s.trackCleanupRef # r
         /\ s.finalChunkPromiseRef # r
         /\ \A t \in TaskIds : \A i \in 1..Len(s.tasks[t]) : s.tasks[t][i].r # r
      THEN NoRecorder ELSE @[r] ] ]

\* the 30 s timeslice of recorder.start(CHUNK_MS)
Timeslice(r) ==
  /\ recorders[r].state = "recording"
  /\ nextChunk < MaxChunks
  /\ Commit(RunReady(handleData(Cur)))

\* a dataavailable event queued by requestData() or stop()
DataAvailable(r) ==
  /\ recorders[r].pending > 0
  /\ \E nonEmpty \in BOOLEAN :
       /\ nonEmpty => nextChunk < MaxChunks
       /\ LET s1 == [ Cur EXCEPT !.recorders[r].pending = @ - 1 ]
              s2 == IF nonEmpty THEN handleData(s1) ELSE s1
          IN Commit(Collect(RunReady(FinalChunk(s2, r))))

\* an ended listener that always asks for recovery
handleEndedRecovers(s, endBehavior) == autoRecover(s)

\* handleEnded (lines 466-472)
handleEnded(s, endBehavior) ==
  IF endBehavior = "stop" THEN Spawn(s, Frame("stop")) ELSE autoRecover(s)

\* the only track of a microphone stream ends: the recorder stops, handleEnded runs
TrackEnded(r) ==
  /\ recorders[r].monitored /\ ~recorders[r].ended
  /\ events < eventCap
  /\ LET s1 == [ Event(Cur) EXCEPT !.recorders[r].ended = TRUE,
                                   !.recoveryLog.endedRecover = @ + 1 ]
         s2 == IF recorders[r].src = "mic" THEN StopRecorder(s1, r) ELSE s1
     IN Commit(RunReady(handleEnded(s2, "recover")))

\* the shared tab's track (endBehavior "stop") ends: void stopRecordingRef.current()
ShareEnded(r) ==
  /\ recorders[r].monitored /\ recorders[r].src = "tab" /\ ~recorders[r].ended
  /\ Commit(RunReady(handleEnded([ Cur EXCEPT !.recorders[r].ended = TRUE,
                                              !.recoveryLog.endedStop = @ + 1 ], "stop")))

\* handleMute / handleUnmute / the mute timer (lines 473-486)
\* handleMute (lines 473-480): the timer is set unless muteTimeout holds one
handleMute(rec) == [ rec EXCEPT !.muteTimer = IF @ = "none" THEN "armed" ELSE @ ]

\* an unmute listener that leaves the timer running
handleUnmuteKeepsTimer(rec) == rec

\* handleUnmute (lines 481-486)
handleUnmute(rec) == [ rec EXCEPT !.muteTimer = "none" ]

\* the callback of the mute timer (lines 475-479)
muteTimeout(s, r) ==
  IF s.recorders[r].muted
  THEN autoRecover([ s EXCEPT !.recoveryLog.timeouts = @ + 1 ])
  ELSE s

Mute(r) ==
  /\ recorders[r].monitored /\ ~recorders[r].muted
  /\ events < eventCap
  /\ Commit([ Event(Cur) EXCEPT !.recorders[r] = handleMute([ @ EXCEPT !.muted = TRUE ]) ])

Unmute(r) ==
  /\ recorders[r].monitored /\ recorders[r].muted
  /\ Commit([ Cur EXCEPT !.recorders[r] = handleUnmute([ @ EXCEPT !.muted = FALSE ]) ])

MuteTimeout(r) ==
  /\ recorders[r].muteTimer = "armed"
  /\ Commit(RunReady(muteTimeout([ Cur EXCEPT !.recorders[r].muteTimer = "fired" ], r)))

\* getUserMedia / getDisplayMedia settle
MediaReply(t) ==
  /\ Waiting(t, "media", {"gum", "gdm", "gum2"})
  /\ \E outcome \in {"ok", "denied", "norecorder"} :
       /\ outcome = "norecorder" => Top(Cur, t).pc # "gdm"
       /\ LET f == Top(Cur, t)
          IN Commit(Collect(RunReady(SetTop(Cur, t,
                 [ f EXCEPT !.res = IF outcome = "denied" THEN "throw" ELSE "ok",
                            !.o = outcome ]))))

\* the 50 ms timer of stopRecording (line 656)
Timer50(t) ==
  /\ Waiting(t, "stop", {"timer50"})
  /\ Commit(RunReady(Resume(Cur, t, "ok")))

\* the 1.5 s timer set by the disconnect listener (lines 231-234)
ReconnectTimer ==
  /\ reconnectTimers.pending > 0
  /\ Commit(RunReady(handleReconnect([ Cur EXCEPT !.reconnectTimeoutRef = FALSE,
                                                   !.reconnectTimers.pending = @ - 1 ])))

\* window "offline" / "online" events (lines 819-824)
GoOffline ==
  /\ online
  /\ events < eventCap
  /\ Commit([ Event(Cur) EXCEPT !.online = FALSE, !.networkStatus = "offline" ])

GoOnline ==
  /\ ~online
  /\ Commit(RunReady(handleReconnect([ Cur EXCEPT !.online = TRUE, !.networkStatus = "online" ])))

\* the transport of socket k comes up; a new socket emits its join (lines 266-271)
SocketConnect(k) ==
  /\ sockets[k].st = "down" /\ online
  /\ LET s1 == [ Cur EXCEPT !.sockets[k].st = "up", !.sockets[k].onceJoin = FALSE ]
     IN Commit(IF sockets[k].onceJoin
               THEN EmitJoin(s1, k, JoinPayload(s1, sockets[k].cpFor), FALSE) ELSE s1)

SocketConnectError(k) ==
  /\ sockets[k].st = "down" /\ sockets[k].cp = "pending"
  /\ events < eventCap
  /\ Commit(RunReady(SettleConnect(Event(Cur), k, "throw")))

SocketDisconnect(k) ==
  /\ sockets[k].st = "up"
  /\ events < eventCap
  /\ LET s1 == [ Event(Cur) EXCEPT !.sockets[k].st = "down", !.sockets[k].joinQ = << >>,
                                   !.sockets[k].srvUser = FALSE, !.sockets[k].srvRoom = 0 ]
     IN Commit(RunReady(onDisconnect(LoseAcks(s1, k))))

\* the relay answers a join-session; session-joined / session-error reach the
\* listeners of the connectPromise (lines 245-254) if they are still registered
ServerJoin(k) ==
  /\ sockets[k].st = "up" /\ sockets[k].joinQ # << >>
  /\ LET msg == Head(sockets[k].joinQ)
         s1 == [ Cur EXCEPT !.sockets[k].joinQ = Tail(@) ]
     IN IF JoinAccepted(Cur, msg)
        THEN LET s2 == [ s1 EXCEPT !.sockets[k].srvUser = TRUE,
                                   !.sockets[k].srvRoom = msg.sessionId ]
             IN Commit(RunReady(IF sockets[k].cp = "pending"
                                THEN SettleConnect([ s2 EXCEPT !.joinedSessionRef = sockets[k].cpFor ],
                                                   k, "ok")
                                ELSE s2))
        ELSE Commit(RunReady(IF sockets[k].cp = "pending"
                             THEN SettleConnect(s1, k, "throw") ELSE s1))

\* FileReader.onloadend of blobToBase64
BlobLoaded(d) ==
  /\ drains[d].pc = "blob" /\ drains[d].res = "wait"
  /\ Commit(RunReady([ Cur EXCEPT !.drains[d].res = "ok" ]))

\* the relay acknowledges an audio-chunk; it handles a connection's messages
\* in the order they were sent
ServerAudioChunk(d) ==
  /\ drains[d].pc = "ack" /\ drains[d].res = "wait"
  /\ sockets[drains[d].k].joinQ = << >>
  /\ \E fault \in BOOLEAN :
       /\ fault => events < eventCap
       /\ LET s1 == IF fault THEN Event(Cur) ELSE Cur
              ok == ~fault /\ MessageAccepted(Cur, drains[d].k, drains[d].sess)
          IN Commit(RunReady([ s1 EXCEPT !.drains[d].res = IF ok THEN "ok" ELSE "throw" ]))

\* POST /api/recordings/{id}/chunks answers
RestChunkReply(d) ==
  /\ drains[d].pc = "rest" /\ drains[d].res = "wait"
  /\ \E fault \in BOOLEAN :
       /\ fault => events < eventCap
       /\ LET s1 == IF fault THEN Event(Cur) ELSE Cur
              ok == ~fault /\ drains[d].sess # NULL
          IN Commit(RunReady([ s1 EXCEPT !.drains[d].res = IF ok THEN "ok" ELSE "throw" ]))

\* the relay acknowledges a complete-session
ServerComplete(t) ==
  /\ Waiting(t, "complete", {"sock_ack"})
  /\ sockets[Top(Cur, t).k].joinQ = << >>
  /\ \E fault \in BOOLEAN :
       /\ fault => events < eventCap
       /\ LET s1 == IF fault THEN Event(Cur) ELSE Cur
              f == Top(Cur, t)
              ok == ~fault /\ MessageAccepted(Cur, f.k, f.sid)
          IN Commit(Collect(RunReady(Resume(s1, t, IF ok THEN "ok" ELSE "throw"))))

\* POST /api/recordings/{id}/complete answers
RestCompleteReply(t) ==
  /\ Waiting(t, "complete", {"rest"})
  /\ \E fault \in BOOLEAN :
       /\ fault => events < eventCap
       /\ LET s1 == IF fault THEN Event(Cur) ELSE Cur
          IN Commit(Collect(RunReady(Resume(s1, t, IF fault THEN "throw" ELSE "ok"))))

\* POST /api/recordings answers (createRecordingSession, lines 588-598)
RestCreateReply(t) ==
  /\ Waiting(t, "start", {"created"})
  /\ \E fault \in BOOLEAN :
       /\ fault => events < eventCap
       /\ ~fault => nextSession < sessionCap
       /\ LET f == Top(Cur, t)
          IN IF fault
             THEN Commit(Collect(RunReady(Resume(Event(Cur), t, "throw"))))
             ELSE Commit(RunReady(SetTop([ Cur EXCEPT !.nextSession = @ + 1 ], t,
                                         [ f EXCEPT !.res = "ok", !.sid = nextSession + 1 ])))

\* the relay's notifications reach the listeners of a connected socket; the
\* session ids are those of this client's recording and of another one
NoticeSessions == 1..(MaxSessions + 1)

Noticed(s, type, payload) ==
  [ s EXCEPT !.notice = [ n |-> @.n + 1, type |-> type, sessionId |-> payload.sessionId,
                          text |-> payload.text ] ]

ChunkTranscribed(k) ==
  /\ sockets[k].st = "up" /\ notice.n < MaxNotices
  /\ \E sessionId \in NoticeSessions, index \in 1..MaxChunks, text \in BOOLEAN :
       LET payload == [ sessionId |-> sessionId, index |-> index, text |-> text ]
       IN Commit(onChunkTranscribed(Noticed(Cur, "chunk-transcribed", payload), payload))

ChunkError(k) ==
  /\ sockets[k].st = "up" /\ notice.n < MaxNotices
  /\ \E sessionId \in NoticeSessions :
       LET payload == [ sessionId |-> sessionId, text |-> TRUE ]
       IN Commit(onChunkError(Noticed(Cur, "chunk-error", payload), payload))

SessionStatus(k) ==
  /\ sockets[k].st = "up" /\ notice.n < MaxNotices
  /\ \E sessionId \in NoticeSessions, status \in {"completed", "processing", "unknown"} :
       LET payload == [ sessionId |-> sessionId, status |-> status, text |-> FALSE ]
       IN Commit(onSessionStatus(Noticed(Cur, "session-status", payload), payload))

\* ---------------------------------------------------------------- relay
\* A signed token (src/lib/socket-token.ts): the payload {sessionId, userId,
\* exp} and what the HMAC check makes of its signature; "missing" is an absent
\* token, "malformed" a string without a dot.
Tokens ==
  [ sessionId : 1..MaxRelaySessions, userId : 1..MaxUsers, exp : 0..MaxClock,
    sig : {"good", "forged", "malformed"} ]
  \cup { [ sessionId |-> 1, userId |-> 1, exp |-> 0, sig |-> "missing" ] }

\* prisma.recordingSession rows: recording n belongs to user n
RecordingFound(sessionId, userId) == sessionId \in 1..MaxRelaySessions /\ userId = sessionId

\* a verification that does not look at exp
verifySocketTokenNoExpiry(token, now) ==
  IF token.sig = "malformed" THEN "Invalid token format"
  ELSE IF token.sig # "good" THEN "Invalid token signature"
  ELSE "ok"

\* verifySocketToken (src/lib/socket-token.ts lines 39-56)
verifySocketToken(token, now) ==
  IF token.sig = "malformed" THEN "Invalid token format"
  ELSE IF token.sig # "good" THEN "Invalid token signature"
  ELSE IF token.exp < now THEN "Token expired"
  ELSE "ok"

\* the message of a chunk request and the answer of its gates
NoRequest ==
  [ req |-> 0, sessionId |-> 0, chunk |-> 0,
    token |-> [ sessionId |-> 1, userId |-> 1, exp |-> 0, sig |-> "missing" ], ack |-> "none" ]

\* rateState has no entry for the connection; the database holds no chunk row,
\* no transcript and no status event
NoRate == [ set |-> FALSE, count |-> 0, windowStart |-> 0 ]
NoRows == [ chunks |-> {}, transcripts |-> {}, recording |-> {} ]

RelayIdle ==
  [ now |-> 0, userId |-> NULL, rooms |-> {}, lookups |-> {}, requests |-> 0, log |-> << >>,
    rate |-> NoRate, db |-> NoRows, stores |-> {}, chunkRequests |-> 0, last |-> NoRequest,
    emitted |-> {} ]

\* one line of the relay's history: the request received, socket.join, or
\* an event emitted to the connection, with the request it belongs to
LogEntry(op, req, payload, at) ==
  [ op |-> op, req |-> req, sessionId |-> payload.sessionId, token |-> payload.token, at |-> at ]

\* join-session handler up to its await (part_006 lines 80-100)
joinSession(r, payload) ==
  LET req == r.requests + 1
      r1 == [ r EXCEPT !.requests = req,
                       !.log = Append(@, LogEntry("join-session", req, payload, r.now)) ]
      refused == [ r1 EXCEPT !.log = Append(@, LogEntry("session-error", req, payload, r.now)) ]
  IN IF payload.sessionId = NULL \/ payload.token.sig = "missing" THEN refused
     ELSE IF verifySocketToken(payload.token, r.now) # "ok" THEN refused
     ELSE IF payload.token.sessionId # payload.sessionId THEN refused
     ELSE [ r1 EXCEPT !.userId = payload.token.userId,
                      !.lookups = @ \cup { [ req |-> req, payload |-> payload,
                                             userId |-> payload.token.userId, at |-> r.now ] } ]

\* join-session handler after findUnique has answered (part_006 lines 101-107)
joinLookup(r, q) ==
  LET r1 == [ r EXCEPT !.lookups = @ \ {q} ] IN
  IF ~RecordingFound(q.payload.sessionId, q.userId)
  THEN [ r1 EXCEPT !.log = Append(@, LogEntry("session-error", q.req, q.payload, q.at)) ]
  ELSE [ r1 EXCEPT !.rooms = @ \cup { q.payload.sessionId },
                   !.log = @ \o << LogEntry("socket.join", q.req, q.payload, q.at),
                                    LogEntry("session-joined", q.req, q.payload, q.at) >> ]

RelayJoin ==
  /\ relay.requests < MaxJoins
  /\ \E sessionId \in 0..MaxRelaySessions, token \in Tokens :
       relay' = joinSession(relay, [ sessionId |-> sessionId, token |-> token ])
  /\ UNCHANGED << hookVars, server >>

RelayLookup ==
  /\ \E q \in relay.lookups : relay' = joinLookup(relay, q)
  /\ UNCHANGED << hookVars, server >>

\* a limit that lets one more message through
checkRateLimitOneMore(r) ==
  IF ~r.rate.set \/ r.now - r.rate.windowStart > RATE_WINDOW_MS
  THEN [ rate |-> [ set |-> TRUE, count |-> 1, windowStart |-> r.now ], ok |-> TRUE ]
  ELSE IF r.rate.count > MAX_CHUNKS_PER_WINDOW THEN [ rate |-> r.rate, ok |-> FALSE ]
  ELSE [ rate |-> [ r.rate EXCEPT !.count = @ + 1 ], ok |-> TRUE ]

\* checkRateLimit (part_006 lines 63-75): the new rateState entry and the verdict
checkRateLimit(r) ==
  IF ~r.rate.set \/ r.now - r.rate.windowStart > RATE_WINDOW_MS
  THEN [ rate |-> [ set |-> TRUE, count |-> 1, windowStart |-> r.now ], ok |-> TRUE ]
  ELSE IF r.rate.count >= MAX_CHUNKS_PER_WINDOW THEN [ rate |-> r.rate, ok |-> FALSE ]
  ELSE [ rate |-> [ r.rate EXCEPT !.count = @ + 1 ], ok |-> TRUE ]

\* a relay without the size ceiling
ChunkTooLargeIgnored(payload) == FALSE

\* line 123: Buffer.byteLength(chunk, "base64") > 2 * 1024 * 1024
ChunkTooLarge(payload) == payload.chunk > CHUNK_CEILING

\* lines 128-136: the token is verified and bound to the session and the user
tokenGate(r, payload) ==
  LET v == verifySocketToken(payload.token, r.now) IN
  IF v # "ok" THEN v
  ELSE IF payload.token.sessionId # payload.sessionId \/ payload.token.userId # r.userId
  THEN "Invalid token for chunk upload"
  ELSE "ok"

\* audio-chunk handler up to its first await (part_006 lines 110-142)
audioChunk(r, payload) ==
  LET req == r.chunkRequests + 1
      r1 == [ r EXCEPT !.chunkRequests = req ]
      Ack(x, message) == [ x EXCEPT !.last = [ req |-> req, sessionId |-> payload.sessionId,
                                               chunk |-> payload.chunk, token |-> payload.token,
                                               ack |-> message ] ]
  IN IF payload.sessionId = NULL \/ payload.chunk = 0 \/ payload.token.sig = "missing"
     THEN Ack(r1, "Missing sessionId, chunk, or token")
     ELSE LET rl == checkRateLimit(r1)
              r2 == [ r1 EXCEPT !.rate = rl.rate ]
          IN IF ~rl.ok THEN Ack(r2, "Rate limit exceeded")
             ELSE IF ChunkTooLarge(payload) THEN Ack(r2, "Chunk too large")
             ELSE IF tokenGate(r2, payload) # "ok" THEN Ack(r2, tokenGate(r2, payload))
             ELSE Ack([ r2 EXCEPT !.stores = @ \cup { [ req |-> req,
                                                        sessionId |-> payload.sessionId,
                                                        userId |-> r.userId ] } ],
                      "pending")

\* audio-chunk handler after findUnique has answered (part_006 lines 144-212):
\* fault is the database call that throws, text whether Gemini returned a
\* transcript that is kept
storeChunk(r, q, fault, text) ==
  LET r1 == [ r EXCEPT !.stores = @ \ {q} ]
      failed(x) == [ x EXCEPT !.emitted = @ \cup { [ req |-> q.req, op |-> "chunk-error" ] } ]
  IN IF ~RecordingFound(q.sessionId, q.userId) \/ fault = "create" THEN failed(r1)
     ELSE LET r2 == [ r1 EXCEPT !.db.chunks = @ \cup { q.req } ] IN
          IF text /\ fault = "update" THEN failed(r2)
          ELSE LET r3 == IF text THEN [ r2 EXCEPT !.db.transcripts = @ \cup { q.req } ] ELSE r2 IN
               IF q.sessionId \notin r3.db.recording /\ fault = "update" THEN failed(r3)
               ELSE [ r3 EXCEPT !.db.recording = @ \cup { q.sessionId },
                                !.emitted = @ \cup { [ req |-> q.req, op |-> "chunk-transcribed" ] } ]

ChunkSizes == 0..MaxChunkBytes

RelayChunk ==
  /\ relay.chunkRequests < MaxChunkRequests
  /\ \E sessionId \in 0..MaxRelaySessions, chunk \in ChunkSizes, token \in Tokens :
       relay' = audioChunk(relay, [ sessionId |-> sessionId, chunk |-> chunk, token |-> token ])
  /\ UNCHANGED << hookVars, server >>

RelayStore ==
  /\ \E q \in relay.stores, fault \in {"none", "create", "update"}, text \in BOOLEAN :
       relay' = storeChunk(relay, q, fault, text)
  /\ UNCHANGED << hookVars, server >>

\* Date.now() advances
RelayTick ==
  /\ relay.now < MaxClock
  /\ relay' = [ relay EXCEPT !.now = @ + 1 ]
  /\ UNCHANGED << hookVars, server >>

\* ------------------------------------------------- persistence handlers
\* The transcript is held as the sequence of its lines; the text Gemini
\* returns for a chunk request is one line, named by the request.
NoSummary == [ kind |-> "null", lines |-> << >> ]

\* the row written by POST /api/recordings (route.ts lines 51-59), no chunk
\* rows, no handler running
ServerIdle ==
  [ db |-> [ transcript |-> << >>, status |-> "idle", summary |-> NoSummary, chunks |-> << >> ],
    handlers |-> {}, requests |-> 0, acks |-> << >>,
    done |-> [ id |-> 0, via |-> "none", outcome |-> "none", lines |-> 0 ] ]

Answer(v, id, op, ok, text) ==
  [ v EXCEPT !.acks = Append(@, [ id |-> id, op |-> op, ok |-> ok, text |-> text ]) ]

\* [recording.transcript ?? "", transcriptText].filter(Boolean).join("\n")
JoinLines(transcript, line) == Append(transcript, line)

\* transcript.split(/\r?\n/).filter(Boolean).slice(0, 2)
FirstTwoLines(transcript) ==
  SubSeq(transcript, 1, IF Len(transcript) < 2 THEN Len(transcript) ELSE 2)

\* a chunk upload, over the channel (part_006 lines 138-151, after its gates)
\* or over REST (chunks/route.ts lines 35-58): findUnique reads the row, then
\* audioChunk.create stores the audio; fault is a create that throws
chunkArrive(v, via, audio, fault) ==
  LET id == v.requests + 1
      v1 == [ v EXCEPT !.requests = id ]
  IN IF fault THEN Answer(v1, id, "chunk", FALSE, FALSE)
     ELSE [ v1 EXCEPT !.db.chunks = Append(@, [ req |-> id, audio |-> audio ]),
                      !.handlers = @ \cup { [ id |-> id, op |-> "chunk", via |-> via,
                                              snap |-> [ transcript |-> v.db.transcript,
                                                         status |-> v.db.status,
                                                         summary |-> v.db.summary ] ] } ]

\* the rest of the upload (part_006 lines 153-207, chunks/route.ts lines
\* 60-105): text is whether a transcript line is kept, fault the database call
\* that throws (the chunk's update, the status event, or the session's update)
chunkFinish(v, h, text, fault) ==
  LET v1 == [ v EXCEPT !.handlers = @ \ {h} ]
      updatedTranscript == IF text THEN JoinLines(h.snap.transcript, h.id) ELSE h.snap.transcript
      setStatus == h.snap.status # "recording"
  IN IF text /\ fault = "chunk" THEN Answer(v1, h.id, "chunk", FALSE, text)
     ELSE IF setStatus /\ fault = "event" THEN Answer(v1, h.id, "chunk", FALSE, text)
     ELSE IF ~text /\ ~setStatus THEN Answer(v1, h.id, "chunk", TRUE, text)
     ELSE IF fault = "session" THEN Answer(v1, h.id, "chunk", FALSE, text)
     ELSE Answer([ v1 EXCEPT !.db.transcript = IF text THEN updatedTranscript ELSE @,
                             !.db.status = IF setStatus THEN "recording" ELSE @ ],
                 h.id, "chunk", TRUE, text)

\* a completion, over the channel (part_006 lines 229-253) or over REST
\* (socket-token.ts lines 114-136): findUnique reads the row, then the
\* status is set to processing
completeArrive(v, via) ==
  LET id == v.requests + 1 IN
  [ v EXCEPT !.requests = id,
             !.db.status = "processing",
             !.handlers = @ \cup { [ id |-> id, op |-> "complete", via |-> via,
                                     snap |-> [ transcript |-> v.db.transcript,
                                                status |-> v.db.status,
                                                summary |-> v.db.summary ] ] } ]

\* recording.summary ?? ""
SummaryOrEmpty(summary) ==
  IF summary.kind = "null" THEN [ kind |-> "empty", lines |-> << >> ] ELSE summary

\* the summary after the try block (part_006 lines 255-263, socket-token.ts
\* lines 138-146); outcome is what summarizeTranscript did
Summarized(h, outcome) ==
  IF h.snap.transcript # << >> /\ outcome = "text" THEN [ kind |-> "model", lines |-> << >> ]
  ELSE IF h.snap.transcript # << >> /\ outcome = "empty" THEN [ kind |-> "empty", lines |-> << >> ]
  ELSE SummaryOrEmpty(h.snap.summary)

\* socket-token.ts lines 148-156: the teaser of the REST route
WithFallback(h, summary) ==
  IF summary.kind # "empty" THEN summary
  ELSE IF h.snap.transcript # << >>
  THEN [ kind |-> "teaser", lines |-> FirstTwoLines(h.snap.transcript) ]
  ELSE [ kind |-> "unavailable", lines |-> << >> ]

\* the rest of the completion (part_006 lines 255-288, socket-token.ts lines
\* 138-181)
completeFinish(v, h, outcome) ==
  LET summary == IF h.via = "rest" THEN WithFallback(h, Summarized(h, outcome))
                 ELSE Summarized(h, outcome)
  IN Answer([ v EXCEPT !.handlers = @ \ {h},
                       !.db.status = "completed",
                       !.db.summary = summary,
                       !.done = [ id |-> h.id, via |-> h.via, outcome |-> outcome,
                                  lines |-> Len(h.snap.transcript) ] ],
            h.id, "complete", TRUE, FALSE)

Paths == {"socket", "rest"}

ServerChunk ==
  /\ server.requests < MaxServerRequests
  /\ \E via \in Paths, audio \in 1..MaxAudio, fault \in BOOLEAN :
       server' = chunkArrive(server, via, audio, fault)
  /\ UNCHANGED << hookVars, relay >>

ServerChunkDone ==
  /\ \E h \in server.handlers, text \in BOOLEAN, fault \in {"none", "chunk", "event", "session"} :
       /\ h.op = "chunk"
       /\ server' = chunkFinish(server, h, text, fault)
  /\ UNCHANGED << hookVars, relay >>

ServerCompleteArrive ==
  /\ server.requests < MaxServerRequests
  /\ \E via \in Paths : server' = completeArrive(server, via)
  /\ UNCHANGED << hookVars, relay >>

ServerCompleteDone ==
  /\ \E h \in server.handlers, outcome \in {"text", "empty", "throw"} :
       /\ h.op = "complete"
       /\ server' = completeFinish(server, h, outcome)
  /\ UNCHANGED << hookVars, relay >>

\* --------------------------------------------------------- specifications
HookInit ==
  /\ machine = initialContext
  /\ selectedSource = "mic"
  /\ online = TRUE
  /\ networkStatus = "online"
  /\ sessionStatus = "idle"
  /\ sessionIdRef = NULL /\ socketTokenRef = NULL /\ chunkQueueRef = << >>
  /\ uploadingRef = FALSE /\ flushPromiseRef = NULL /\ chunkCounterRef = 0
  /\ finalChunkPromiseRef = NULL /\ mediaRecorderRef = NULL /\ streamRef = NULL
  /\ trackCleanupRef = NULL /\ socketRef = NULL /\ joinedSessionRef = NULL
  /\ reconnectTimeoutRef = FALSE /\ streamRestartPromiseRef = FALSE
  /\ canUseSocket \in BOOLEAN
  /\ recorders = [ r \in RecorderIds |-> NoRecorder ]
  /\ sockets = [ k \in SocketIds |-> NoSocket ]
  /\ drains = [ d \in DrainIds |-> NoDrain ]
  /\ tasks = [ t \in TaskIds |-> << >> ]
  /\ nextSession = 0 /\ nextChunk = 0 /\ events = 0
  /\ delivered = << >> /\ discarded = {} /\ joinLog = {} /\ completions = << >>
  /\ error = "null" /\ liveTranscripts = << >> /\ notice = NoNotice
  /\ recoveryLog = [ timeouts |-> 0, endedStop |-> 0, endedRecover |-> 0, started |-> 0,
                     stops |-> 0 ]
  /\ reconnectTimers = [ pending |-> 0, armed |-> 0, ignored |-> 0, idle |-> 0 ]
  /\ sent = NoSent
  /\ server = ServerIdle

Init == HookInit /\ sessionCap = MaxSessions /\ eventCap = MaxEvents /\ relay = RelayIdle

Next ==
  \/ UserStart \/ UserStop \/ UserPause \/ UserResume \/ UserDiscard \/ UserRetry
  \/ UserSelectSource
  \/ \E r \in RecorderIds :
       \/ Timeslice(r) \/ DataAvailable(r) \/ TrackEnded(r) \/ ShareEnded(r)
       \/ Mute(r) \/ Unmute(r) \/ MuteTimeout(r)
  \/ \E t \in TaskIds :
       \/ MediaReply(t) \/ Timer50(t) \/ ServerComplete(t) \/ RestCompleteReply(t)
       \/ RestCreateReply(t)
  \/ ReconnectTimer \/ GoOffline \/ GoOnline
  \/ \E k \in SocketIds :
       \/ SocketConnect(k) \/ SocketConnectError(k) \/ SocketDisconnect(k) \/ ServerJoin(k)
  \/ \E d \in DrainIds :
       \/ BlobLoaded(d) \/ ServerAudioChunk(d) \/ RestChunkReply(d)

Spec == Init /\ [][Next]_vars

\* Runs over REST in which the user may start a second recording: the user's
\* start and stop, the recorder's events and the replies of the REST routes.
InitRestart ==
  /\ HookInit /\ ~canUseSocket /\ sessionCap = MaxRestartSessions /\ eventCap = MaxEvents
  /\ relay = RelayIdle

NextRestart ==
  \/ UserStart \/ UserStop \/ UserRetry
  \/ \E r \in RecorderIds : Timeslice(r) \/ DataAvailable(r)
  \/ \E t \in TaskIds :
       \/ MediaReply(t) \/ Timer50(t) \/ RestCompleteReply(t) \/ RestCreateReply(t)
  \/ \E d \in DrainIds : BlobLoaded(d) \/ RestChunkReply(d)

SpecRestart == InitRestart /\ [][NextRestart]_vars

\* The relay's join-session handler under arbitrary join requests, with the
\* client at rest.
InitRelay ==
  /\ HookInit /\ canUseSocket /\ sessionCap = MaxSessions /\ eventCap = MaxEvents
  /\ relay = RelayIdle

NextRelay == RelayJoin \/ RelayLookup \/ RelayTick

SpecRelay == InitRelay /\ [][NextRelay]_vars

\* Runs over REST in which the tracks of the capture are muted, unmuted and
\* ended several times.
InitTrack ==
  /\ HookInit /\ ~canUseSocket /\ sessionCap = MaxSessions /\ eventCap = MaxTrackEvents
  /\ relay = RelayIdle

NextTrack ==
  \/ UserStart \/ UserStop \/ UserPause \/ UserResume \/ UserSelectSource
  \/ \E r \in RecorderIds :
       \/ DataAvailable(r) \/ TrackEnded(r) \/ ShareEnded(r)
       \/ Mute(r) \/ Unmute(r) \/ MuteTimeout(r)
  \/ \E t \in TaskIds :
       \/ MediaReply(t) \/ Timer50(t) \/ RestCompleteReply(t) \/ RestCreateReply(t)
  \/ \E d \in DrainIds : BlobLoaded(d) \/ RestChunkReply(d)

SpecTrack == InitTrack /\ [][NextTrack]_vars

\* Runs over the relay in which the relay's notifications reach the client in
\* any order relative to its acknowledgements.
InitNotice ==
  /\ HookInit /\ canUseSocket /\ sessionCap = MaxSessions /\ eventCap = MaxEvents
  /\ relay = RelayIdle

NextNotice ==
  \/ UserStart \/ UserStop
  \/ \E r \in RecorderIds : Timeslice(r) \/ DataAvailable(r)
  \/ \E t \in TaskIds :
       \/ MediaReply(t) \/ Timer50(t) \/ ServerComplete(t) \/ RestCompleteReply(t)
       \/ RestCreateReply(t)
  \/ \E k \in SocketIds :
       \/ SocketConnect(k) \/ ServerJoin(k)
       \/ ChunkTranscribed(k) \/ ChunkError(k) \/ SessionStatus(k)
  \/ \E d \in DrainIds : BlobLoaded(d) \/ ServerAudioChunk(d)

SpecNotice == InitNotice /\ [][NextNotice]_vars

\* The relay's audio-chunk handler under arbitrary chunk requests, on a
\* connection whose socket.data.userId is unset or was set by a join (line 91).
InitGate ==
  /\ HookInit /\ canUseSocket /\ sessionCap = MaxSessions /\ eventCap = MaxEvents
  /\ \E u \in 0..MaxUsers : relay = [ RelayIdle EXCEPT !.userId = u ]

NextGate == RelayChunk \/ RelayStore \/ RelayTick

SpecGate == InitGate /\ [][NextGate]_vars

\* The machine under arbitrary sequences of events
MachineSend ==
  /\ sent.n < MaxSends
  /\ \E e \in RecorderEvents :
       Commit([ send(Cur, e[1], e[2]) EXCEPT
                  !.sent = [ n |-> sent.n + 1, type |-> e[1], arg |-> e[2] ] ])

InitMachine ==
  /\ HookInit /\ canUseSocket /\ sessionCap = MaxSessions /\ eventCap = MaxEvents
  /\ relay = RelayIdle

NextMachine == MachineSend

SpecMachine == InitMachine /\ [][NextMachine]_vars

\* Runs over the relay in which the transport of the socket drops and comes
\* back several times.
InitLink ==
  /\ HookInit /\ canUseSocket /\ sessionCap = MaxSessions /\ eventCap = MaxLinkEvents
  /\ relay = RelayIdle

NextLink ==
  \/ UserStart \/ UserStop
  \/ \E r \in RecorderIds : DataAvailable(r)
  \/ \E t \in TaskIds :
       \/ MediaReply(t) \/ Timer50(t) \/ ServerComplete(t) \/ RestCompleteReply(t)
       \/ RestCreateReply(t)
  \/ ReconnectTimer
  \/ \E k \in SocketIds : SocketConnect(k) \/ SocketDisconnect(k) \/ ServerJoin(k)
  \/ \E d \in DrainIds : BlobLoaded(d) \/ ServerAudioChunk(d)

SpecLink == InitLink /\ [][NextLink]_vars

\* The database row of one session under arbitrary chunk uploads and
\* completions, whose handlers interleave at their awaits.
InitServer ==
  /\ HookInit /\ canUseSocket /\ sessionCap = MaxSessions /\ eventCap = MaxEvents
  /\ relay = RelayIdle

NextServer == ServerChunk \/ ServerChunkDone \/ ServerCompleteArrive \/ ServerCompleteDone

SpecServer == InitServer /\ [][NextServer]_vars

\* ------------------------------------------------------------ properties
Flying == { d \in DrainIds : drains[d].pc \in {"blob", "connect", "ack", "rest", "hung"} }
InFlightNow == Cardinality(Flying)
QueuedIds == { chunkQueueRef[i].id : i \in 1..Len(chunkQueueRef) }
FlyingIds == { drains[d].chunk.id : d \in Flying }
DeliveredIds == { delivered[i].chunk.id : i \in 1..Len(delivered) }
ActiveRecorders == { r \in RecorderIds : recorders[r].state \in {"recording", "paused"} }
AwaitingFlush(t) ==
  \E i \in 1..Len(tasks[t]) : tasks[t][i].pc = "flush" /\ tasks[t][i].res = "wait"

\* C1: within one session the sequence indices of the successful deliveries
\* are exactly 1, 2, ..., n in delivery order, retries included.
C1_GaplessIndices ==
  \A i \in 1..Len(delivered) :
    delivered[i].index = Cardinality({ j \in 1..i : delivered[j].sess = delivered[i].sess })

\* C2: at most one delivery attempt is outstanding at any time, and whoever
\* awaits flushQueue awaits the one drain that is running.
C2_SingleDrain ==
  /\ InFlightNow <= 1
  /\ \A t \in TaskIds : \A i \in 1..Len(tasks[t]) :
       (tasks[t][i].pc = "flush" /\ tasks[t][i].res = "wait")
         => (tasks[t][i].d = flushPromiseRef /\ drains[tasks[t][i].d].pc # "idle")

\* a chunk is captured and stop awaits the drain while a delivery is in flight
C2_Witness ==
  /\ InFlightNow = 1
  /\ Len(chunkQueueRef) > 0
  /\ \E t \in TaskIds : AwaitingFlush(t)

\* a drain whose attempt fails in this step: it was delivering, it has ended
\* and nothing was delivered
AttemptFailed(d) ==
  /\ drains[d].pc \in {"blob", "connect", "ack", "rest"}
  /\ drains'[d].pc = "idle"
  /\ delivered' = delivered

\* C3: a failed attempt puts its chunk back at the head of the queue and ends
\* the drain without attempting a later chunk; chunks are delivered, and wait
\* in the queue, in capture order.
C3_CaptureOrder ==
  /\ [](/\ \A i, j \in 1..Len(delivered) :
             i < j => delivered[i].chunk.id < delivered[j].chunk.id
        /\ \A i, j \in 1..Len(chunkQueueRef) :
             i < j => chunkQueueRef[i].id < chunkQueueRef[j].id
        /\ \A c \in FlyingIds : \A q \in QueuedIds : c < q)
  /\ [][\A d \in DrainIds :
          AttemptFailed(d) => /\ chunkQueueRef' # << >>
                              /\ Head(chunkQueueRef') = drains[d].chunk
                              /\ InFlightNow' = 0]_vars

\* the first attempt of chunk 1 failed, its retry succeeded before chunk 2
C3_Witness ==
  /\ Len(delivered) = 2
  /\ delivered[1].chunk.id = 1 /\ delivered[1].index = 2
  /\ delivered[2].chunk.id = 2

\* C4: a completion request is issued only when no captured chunk is still
\* queued or in delivery.
C4_CompleteAfterQueueEmpty ==
  \A i \in 1..Len(completions) : completions[i].queued = 0

\* C5: a chunk captured in a session leaves the pending queue only by being
\* taken for delivery (and then delivered or put back) or by discardPending.
C5_NoSilentDrop ==
  [][\A i \in 1..Len(chunkQueueRef) :
       chunkQueueRef[i].sess # NULL
         => \/ chunkQueueRef[i].id \in QueuedIds'
            \/ chunkQueueRef[i].id \in FlyingIds'
            \/ chunkQueueRef[i].id \in DeliveredIds'
            \/ chunkQueueRef[i].id \in discarded']_vars

\* no delivery attempt of the session has failed: its deliveries carry the
\* indices 1, 2, ..., n
AllSucceeded(sess) ==
  \A i \in 1..Len(delivered) :
    delivered[i].sess = sess
      => delivered[i].index = Cardinality({ j \in 1..i : delivered[j].sess = sess })

\* C6: when a completion request is issued with nothing pending and every
\* delivery attempt of the session has succeeded, the machine's uploaded count
\* is the number of chunks delivered.
C6_UploadedCountAtCompletion ==
  \A i \in 1..Len(completions) :
    (completions[i].queued = 0 /\ AllSucceeded(completions[i].sess))
      => completions[i].uploaded = completions[i].deliveredN

\* C7: no delivery attempt stays outstanding once its ack can no longer
\* arrive (the connection it was sent on has dropped or was closed).
C7_NoDrainAwaitsLostAck ==
  \A d \in DrainIds : drains[d].pc # "hung"

\* C8: every join-session message the client emits carries the session id
\* and the access token.
C8_JoinCarriesToken ==
  \A m \in joinLog : m.sessionId # NULL /\ m.token # NULL

\* C9: while a session is live, whenever the connection is up (also after a
\* disconnect and reconnect) a healthy relay acknowledges the chunks sent for
\* the session: an attempt awaiting its ack ends, in a step without a fault
\* or disconnect, only by being delivered.
C9_HealthyRelayAcks ==
  [][\A d \in DrainIds :
       (/\ drains[d].pc = "ack" /\ drains[d].sess # NULL
        /\ drains[d].sess = sessionIdRef
        /\ sessionStatus \in {"recording", "paused"}
        /\ drains'[d].pc \notin {"ack", "hung"}
        /\ events' = events)
         => Len(delivered') > Len(delivered)]_vars

\* C10: whatever triggers rebuild the capture, at most one recorder is active.
C10_SingleRecorder ==
  Cardinality(ActiveRecorders) <= 1

\* C11: for each session the completion request is issued at most once; the
\* only second request allowed is the REST fallback after the socket request.
C11_CompletionOnce ==
  \A i, j \in 1..Len(completions) :
    (i < j /\ completions[i].sess # NULL /\ completions[i].sess = completions[j].sess)
      => (completions[i].via = "socket" /\ completions[j].via = "rest"
          /\ Cardinality({ n \in 1..Len(completions) :
                             completions[n].sess = completions[i].sess }) = 2)

\* C12: a manual discard (discardPending), in whichever state the machine is,
\* leaves the pending queue empty and the machine's queued-chunk counter at 0.
C12_DiscardResetsQueue ==
  [][discarded' # discarded
       => (chunkQueueRef' = << >> /\ machine'.queuedChunks = 0)]_vars

IsPrefix(a, b) == Len(a) <= Len(b) /\ SubSeq(b, 1, Len(a)) = a

\* C13: a drain that finds the host offline stops at once: while the host is
\* offline no delivery attempt starts and no sequence index is consumed, the
\* chunks of the session stay queued in their order (new captures only join
\* the tail), and the network status reads offline.
C13_OfflineDrainStops ==
  /\ [](~online => networkStatus = "offline")
  /\ [][(~online /\ ~online')
         => (chunkCounterRef' <= chunkCounterRef /\ FlyingIds' \subseteq FlyingIds)]_vars
  /\ [][(~online /\ ~online' /\ flushPromiseRef = NULL /\ sessionIdRef # NULL
          /\ sessionIdRef' = sessionIdRef /\ discarded' = discarded)
         => (IsPrefix(chunkQueueRef, chunkQueueRef') /\ delivered' = delivered
             /\ InFlightNow' = 0)]_vars

\* two chunks captured while offline wait in order, none attempted
C13_Witness ==
  /\ ~online /\ sessionIdRef # NULL /\ networkStatus = "offline"
  /\ Len(chunkQueueRef) = 2 /\ chunkQueueRef[1].id = 1 /\ chunkQueueRef[2].id = 2
  /\ chunkCounterRef = 0 /\ InFlightNow = 0 /\ flushPromiseRef = NULL

\* C14: after a failed delivery every later trigger starts a drain that
\* re-attempts the head chunk. Finite-run form for the trigger "a new chunk is
\* captured": when a chunk is queued for the live session while the host is
\* online, the step leaves a drain attempting the oldest undelivered chunk.
C14_TriggerReattemptsHead ==
  [][(nextChunk' = nextChunk + 1 /\ online /\ sessionIdRef # NULL
      /\ sessionIdRef' = sessionIdRef /\ chunkQueueRef' # << >>
      /\ chunkQueueRef'[Len(chunkQueueRef')].id = nextChunk')
       => \E d \in DrainIds : /\ drains'[d].pc \in {"blob", "connect", "ack", "rest"}
                              /\ \A q \in QueuedIds' : drains'[d].chunk.id < q]_vars

\* C15: when the relay is configured but cannot be connected or joined, the
\* chunk goes out through the REST call instead: an attempt of the live
\* session that uses a connection the relay has not admitted to the session
\* (not connected, or join refused) continues as a REST request when the relay
\* path gives up; it does not end as a failed attempt. Checked for attempts
\* made while recording with no start, stop or recovery in progress.
C15_RestFallbackForChunks ==
  [][\A d \in DrainIds :
       (/\ canUseSocket /\ drains[d].pc \in {"connect", "ack"} /\ drains[d].k \in SocketIds
        /\ sessionIdRef # NULL /\ drains[d].chunk.sess = sessionIdRef
        /\ sessionIdRef' = sessionIdRef
        /\ machine.value = "recording" /\ \A t \in TaskIds : tasks[t] = << >>
        /\ sockets[drains[d].k].srvRoom # sessionIdRef
        /\ events' = events
        /\ drains'[d].pc \notin {"connect", "ack", "hung"})
         => drains'[d].pc = "rest"]_vars

\* task t runs a stopRecording call that returns in this step
StopReturns(t) == tasks[t] # << >> /\ tasks[t][1].fn = "stop" /\ tasks'[t] = << >>

\* C16: whether the completion request succeeds or fails, when stopRecording
\* returns the local session is torn down (no session id, no token, empty
\* queue, socket closed, media released) and the machine is in idle.
C16_StopTearsDown ==
  [][\A t \in TaskIds : StopReturns(t)
       => /\ sessionIdRef' = NULL /\ socketTokenRef' = NULL /\ chunkQueueRef' = << >>
          /\ socketRef' = NULL
          /\ \A k \in SocketIds : sockets'[k].st \notin {"up", "down"}
          /\ mediaRecorderRef' = NULL /\ streamRef' = NULL
          /\ \A r \in RecorderIds : recorders'[r].state \notin {"recording", "paused"}
          /\ machine'.value = "idle"]_vars

\* the relay accepts the complete-session of task t and its ack arrives
SocketPathSucceeds(t) ==
  /\ Waiting(t, "complete", {"sock_ack"})
  /\ events' = events
  /\ MessageAccepted(Cur, Top(Cur, t).k, Top(Cur, t).sid)
  /\ tasks'[t] # tasks[t]
  /\ (tasks'[t] = << >> \/ tasks'[t][Len(tasks'[t])].pc # "hung")

\* the connection drops while task t awaits the ack of its complete-session
ConnectionDrops(t) ==
  /\ Waiting(t, "complete", {"sock_ack"})
  /\ sockets[Top(Cur, t).k].st = "up" /\ sockets'[Top(Cur, t).k].st = "down"

\* the socket path of task t ends in this step without success: the
\* connection or the join fails, the relay answers ok:false, or the
\* connection drops before the answer
SocketPathFails(t) ==
  \/ /\ Waiting(t, "complete", {"sock_connect", "sock_ack"})
     /\ tasks'[t] # << >>
     /\ tasks'[t][Len(tasks'[t])].pc \notin {"sock_connect", "sock_ack", "hung"}
     /\ ~SocketPathSucceeds(t)
  \/ ConnectionDrops(t)

\* task t issues the REST completion request in this step
RestRequestedBy(t) ==
  /\ ~Waiting(t, "complete", {"rest"})
  /\ tasks'[t] # << >>
  /\ tasks'[t][Len(tasks'[t])].fn = "complete" /\ tasks'[t][Len(tasks'[t])].pc = "rest"

\* C17: completion is requested over the relay first; the REST completion
\* call is made if and only if the relay path is unavailable or fails, and
\* never after the relay acknowledged the completion.
C17_SocketCompletionFirst ==
  [][/\ \A t \in TaskIds : SocketPathSucceeds(t)
            => (completions' = completions /\ ~RestRequestedBy(t))
     /\ \A t \in TaskIds : RestRequestedBy(t)
            => (~canUseSocket \/ SocketPathFails(t))
     /\ \A t \in TaskIds : SocketPathFails(t) => RestRequestedBy(t)
     /\ (Len(completions') > Len(completions)
          /\ completions'[Len(completions')].via = "rest")
            => \E t \in TaskIds : RestRequestedBy(t)]_vars

\* task t runs a startRecording call that ends in its catch block in this step
StartFails(t) ==
  /\ tasks[t] # << >> /\ tasks[t][1].fn = "start" /\ tasks'[t] = << >>
  /\ sessionStatus' = "failed"

\* C18: a start attempt that fails delivers no chunk and leaves no session
\* behind: the session id and token are cleared, the queue is empty and the
\* machine is idle.
C18_FailedStartLeavesNothing ==
  [][\A t \in TaskIds : StartFails(t)
       => /\ sessionIdRef' = NULL /\ socketTokenRef' = NULL /\ chunkQueueRef' = << >>
          /\ machine'.value = "idle"
          /\ \A i \in 1..Len(delivered') :
                tasks[t][1].sid = NULL \/ delivered'[i].sess # tasks[t][1].sid]_vars

\* a stopRecording or completeSession call is still running
Finalizing == \E t \in TaskIds : \E i \in 1..Len(tasks[t]) : tasks[t][i].fn \in {"stop", "complete"}

\* C19: starting while a previous session is live first stops and finalizes
\* it, and the new session is created only after that: when the server
\* creates the next session, the client holds no session id, no active
\* recorder, no queued or in-flight chunk, and no finalization is running.
C19_PreviousSessionFinalizedFirst ==
  [][(nextSession' = nextSession + 1 /\ nextSession >= 1)
       => (sessionIdRef = NULL /\ ActiveRecorders = {} /\ chunkQueueRef = << >>
           /\ InFlightNow = 0 /\ ~Finalizing)]_vars

RelayLog(op) == { i \in 1..Len(relay.log) : relay.log[i].op = op }

\* the token of a join request had expired, or was issued for another session
Expired(e) == e.token.exp < e.at
Mismatched(e) == e.token.sessionId # e.sessionId

\* C20: the relay emits session-joined only for a token with a valid
\* signature whose exp had not passed when it was verified, whose sessionId
\* is the requested one and whose user owns the recording, and only after
\* socket.join of that session's room; a join with an expired token or a
\* token of another session is answered by session-error and adds no room.
C20_JoinValidation ==
  /\ \A i \in RelayLog("session-joined") :
       LET e == relay.log[i] IN
       /\ e.token.sig = "good" /\ ~Expired(e) /\ ~Mismatched(e)
       /\ RecordingFound(e.sessionId, e.token.userId)
       /\ \E j \in RelayLog("socket.join") :
            j < i /\ relay.log[j].req = e.req /\ relay.log[j].sessionId = e.sessionId
       /\ e.sessionId \in relay.rooms
  /\ \A i \in RelayLog("join-session") :
       LET e == relay.log[i] IN
       (Expired(e) \/ Mismatched(e))
         => /\ i < Len(relay.log)
            /\ relay.log[i + 1].op = "session-error" /\ relay.log[i + 1].req = e.req
            /\ \A j \in RelayLog("socket.join") \cup RelayLog("session-joined") :
                 relay.log[j].req # e.req
  /\ relay.rooms = { relay.log[j].sessionId : j \in RelayLog("socket.join") }

\* one join was acknowledged and a later join of the same session, with a
\* well-signed token that has expired, was refused
C20_Witness ==
  \E i \in RelayLog("session-joined"), j \in RelayLog("session-error") :
    /\ i < j
    /\ relay.log[j].token.sig = "good" /\ ~Mismatched(relay.log[j]) /\ Expired(relay.log[j])
    /\ relay.log[j].sessionId = relay.log[i].sessionId
    /\ relay.rooms = { relay.log[i].sessionId }

\* C21: the relay answers an audio-chunk by its first failing gate, in the
\* order payload present, rate limit, size ceiling, token (validity, session
\* and user binding); a rejected chunk persists nothing and starts no
\* processing, and rows are written only while processing a chunk that passed
\* every gate.
C21_GateOrder ==
  [][/\ relay'.chunkRequests = relay.chunkRequests + 1
          => LET m == relay'.last
                 absent == m.sessionId = NULL \/ m.chunk = 0 \/ m.token.sig = "missing"
                 limited == /\ relay.rate.set
                            /\ relay.now - relay.rate.windowStart <= RATE_WINDOW_MS
                            /\ relay.rate.count >= MAX_CHUNKS_PER_WINDOW
                 large == m.chunk > CHUNK_CEILING
                 badToken == \/ m.token.sig # "good" \/ m.token.exp < relay.now
                             \/ m.token.sessionId # m.sessionId
                             \/ m.token.userId # relay.userId
                 rejected == absent \/ limited \/ large \/ badToken
             IN /\ m.req = relay'.chunkRequests
                /\ absent => m.ack = "Missing sessionId, chunk, or token"
                /\ (~absent /\ limited) => m.ack = "Rate limit exceeded"
                /\ (~absent /\ ~limited /\ large) => m.ack = "Chunk too large"
                /\ (~absent /\ ~limited /\ ~large /\ badToken)
                     => m.ack \in { "Invalid token format", "Invalid token signature",
                                    "Token expired", "Invalid token for chunk upload" }
                /\ rejected => (relay'.db = relay.db /\ relay'.stores = relay.stores)
                /\ ~rejected => (m.ack = "pending" /\ relay'.db = relay.db
                                 /\ Cardinality(relay'.stores) = Cardinality(relay.stores) + 1)
     /\ relay'.db # relay.db
          => \E q \in relay.stores : relay'.stores = relay.stores \ {q}]_vars

\* a chunk was stored; a later chunk that is too large and carries a forged
\* token is refused by the rate limit, the first gate it fails
C21_Witness ==
  /\ relay.db.chunks # {}
  /\ relay.last.ack = "Rate limit exceeded"
  /\ relay.last.chunk > CHUNK_CEILING /\ relay.last.token.sig = "forged"

\* C22: a chunk-transcribed, chunk-error or session-status notification whose
\* sessionId is not the client's current session id changes neither the live
\* transcripts nor the error nor the session status, whenever it arrives.
C22_NoticesOfOtherSessionsIgnored ==
  [][(notice'.n = notice.n + 1 /\ notice'.sessionId # sessionIdRef)
       => (liveTranscripts' = liveTranscripts /\ error' = error
           /\ sessionStatus' = sessionStatus)]_vars

\* a notification of the live session was acted on and a chunk-error of
\* another session arrived after it, while a delivery awaits its ack
C22_Witness ==
  /\ notice.n = 2 /\ notice.type = "chunk-error" /\ notice.sessionId # sessionIdRef
  /\ sessionIdRef # NULL /\ liveTranscripts # << >> /\ error = "null"
  /\ \E d \in DrainIds : drains[d].pc = "ack"

\* the session is live and no recovery is in progress
LiveAndIdle ==
  /\ sessionIdRef # NULL /\ sessionStatus \in {"recording", "paused"}
  /\ ~streamRestartPromiseRef

\* C23: a mute that outlasts the grace delay starts exactly one recovery and
\* a mute that ends before it starts none. A monitored track carries a mute
\* timer exactly while it is muted (so the timer that fires is the one of the
\* current mute, set when it began); the timer finding the track muted in a
\* live session with no recovery in progress starts one recovery; it runs at
\* most once per mute; mute and unmute events themselves start none.
C23_MuteGrace ==
  /\ [](\A r \in RecorderIds :
          recorders[r].monitored => (recorders[r].muted <=> recorders[r].muteTimer # "none"))
  /\ [][/\ (recoveryLog'.timeouts = recoveryLog.timeouts + 1 /\ LiveAndIdle)
             => recoveryLog'.started = recoveryLog.started + 1
        /\ recoveryLog'.timeouts # recoveryLog.timeouts
             => /\ recoveryLog'.timeouts = recoveryLog.timeouts + 1
                /\ recoveryLog'.started <= recoveryLog.started + 1
                /\ \E r \in RecorderIds :
                     /\ recorders[r].muted /\ recorders[r].muteTimer = "armed"
                     /\ recorders'[r].muteTimer # "armed"
        /\ \A r \in RecorderIds :
             (recorders[r].monitored /\ recorders'[r].monitored
              /\ recorders'[r].muted # recorders[r].muted)
               => recoveryLog'.started = recoveryLog.started
        /\ \A r \in RecorderIds :
             ~(recorders[r].muteTimer = "fired" /\ recorders'[r].muteTimer = "armed")]_vars

\* three mutes of the microphone track: two outlasted the grace delay and
\* started one recovery each, one ended before it
C23_Witness ==
  /\ events = 3 /\ recoveryLog.timeouts = 2 /\ recoveryLog.started = 2
  /\ sessionIdRef # NULL /\ sessionStatus = "recording"
  /\ \E r \in RecorderIds :
       recorders[r].monitored /\ recorders[r].muted /\ recorders[r].muteTimer = "fired"

\* C24: an ended event on a track marked stop starts the stop path of the live
\* session (stopRecording runs, the session is finalizing or already torn
\* down) and starts no recovery; an ended event on a recoverable track of a
\* live session with no recovery in progress starts one recovery and neither
\* calls stopRecording nor ends the session.
C24_EndedByBehavior ==
  [][/\ (recoveryLog'.endedStop = recoveryLog.endedStop + 1 /\ sessionIdRef # NULL)
          => /\ recoveryLog'.stops = recoveryLog.stops + 1
             /\ recoveryLog'.started = recoveryLog.started
             /\ (sessionStatus' = "processing" \/ sessionIdRef' = NULL)
     /\ (recoveryLog'.endedRecover = recoveryLog.endedRecover + 1 /\ LiveAndIdle)
          => /\ recoveryLog'.started = recoveryLog.started + 1
             /\ recoveryLog'.stops = recoveryLog.stops
             /\ sessionIdRef' = sessionIdRef /\ sessionStatus' = sessionStatus]_vars

\* in one tab session the microphone leg ended and was recovered, then the
\* shared tab ended and the session was finalized
C24_Witness ==
  /\ recoveryLog.endedRecover = 1 /\ recoveryLog.started = 1
  /\ recoveryLog.endedStop = 1 /\ recoveryLog.stops = 1
  /\ Len(completions) = 1 /\ sessionIdRef = NULL /\ machine.value = "idle"

MediaPcs == {"gum", "gdm", "gum2"}

\* task t runs a recovery attempt (the body of autoRecoverRef.current, or
\* reconnectSession) whose request for a new stream fails in this step
RebuildFails(t) ==
  /\ tasks[t] # << >> /\ tasks[t][1].fn \in {"recover", "reconnect"}
  /\ Waiting(t, "media", MediaPcs)
  /\ tasks'[t] # tasks[t]
  /\ \A i \in 1..Len(tasks'[t]) : tasks'[t][i].fn # "media"
  /\ \A r \in RecorderIds : recorders[r].state = "none" => recorders'[r].state = "none"

\* C25: when a recovery attempt, whatever started it, fails to rebuild the
\* capture, the error is surfaced and stopRecording is called for the session.
C25_FailedRecoveryStops ==
  [][\A t \in TaskIds :
       (RebuildFails(t) /\ sessionIdRef # NULL)
         => (error' # "null" /\ recoveryLog'.stops = recoveryLog.stops + 1)]_vars

\* C26: a disconnect during a live session arms the 1.5 s reconnect timer
\* when none is pending and arms nothing when one is pending; a disconnect
\* with no live session arms nothing; so at most one timer is ever pending,
\* and a timer that fires is spent and clears reconnectTimeoutRef.
C26_SingleReconnect ==
  [][/\ reconnectTimers'.pending <= 1
     /\ \A k \in SocketIds :
          (sockets[k].st = "up" /\ sockets'[k].st = "down")
            => reconnectTimers'.pending =
                 (IF sessionIdRef # NULL THEN 1 ELSE reconnectTimers.pending)
     /\ reconnectTimers'.pending < reconnectTimers.pending
          => /\ reconnectTimers'.pending = reconnectTimers.pending - 1
             /\ ~reconnectTimeoutRef']_vars

\* a second disconnect found the timer of the first still pending
C26_Witness ==
  /\ reconnectTimers.armed = 1 /\ reconnectTimers.ignored = 1
  /\ reconnectTimers.pending = 1 /\ sessionIdRef # NULL

\* the event sent in this step
Sending(type) == sent'.n = sent.n + 1 /\ sent'.type = type

\* C27: ERROR moves the machine to the error state from every state and
\* records its message.
C27_ErrorFromEveryState ==
  [][Sending("ERROR") => (machine'.value = "error" /\ machine'.error = sent'.arg)]_vars

\* C28: PAUSE outside recording, RESUME outside paused and STOP outside
\* recording and paused leave the machine's state and its source, queued,
\* uploaded and error values as they were.
C28_NoOpsOutsideState ==
  [][/\ (Sending("PAUSE") /\ machine.value # "recording") => machine' = machine
     /\ (Sending("RESUME") /\ machine.value # "paused") => machine' = machine
     /\ (Sending("STOP") /\ machine.value \notin {"recording", "paused"})
          => machine' = machine]_vars

\* STOP was sent to a machine in the error state that had counted a queued
\* and an uploaded chunk of a tab recording
C28_Witness ==
  /\ sent.type = "STOP" /\ machine.value = "error" /\ machine.source = "tab"
  /\ machine.queuedChunks = 1 /\ machine.uploadedChunks = 1 /\ machine.error = "media"

DeliveredOf(sess) == { i \in 1..Len(delivered) : delivered[i].sess = sess }

\* C30: while a session is live the machine's queued count is the number of
\* captured chunks not yet delivered (the pending queue and the chunk being
\* uploaded) and its uploaded count is the number of successful deliveries
\* of that session.
C30_CountersTrackQueue ==
  sessionIdRef # NULL
    => /\ machine.queuedChunks = Len(chunkQueueRef) + InFlightNow
       /\ machine.uploadedChunks = Cardinality(DeliveredOf(sessionIdRef))

\* the answer given in this step, if one is given
Answered == Len(server'.acks) = Len(server.acks) + 1
LastAck == server'.acks[Len(server'.acks)]

\* C31: the persisted transcript is append-only: an accepted chunk with a
\* non-empty text adds its line after the transcript as it was, and the
\* transcript before any step is a prefix of the transcript after it.
C31_TranscriptAppendOnly ==
  [][/\ IsPrefix(server.db.transcript, server'.db.transcript)
     /\ (Answered /\ LastAck.op = "chunk" /\ LastAck.ok /\ LastAck.text)
          => server'.db.transcript = Append(server.db.transcript, LastAck.id)]_vars

\* C32: when a session whose transcript is not empty has been marked
\* completed, over either path, and summarizeTranscript returned an empty
\* text or threw, the stored summary is the first two transcript lines.
C32_FallbackSummary ==
  (server.db.status = "completed" /\ server.done.lines > 0
     /\ server.done.outcome \in {"empty", "throw"})
    => (server.db.summary.kind = "teaser" /\ server.db.summary.lines # << >>)

\* C39: once the session is marked completed, a chunk upload that is
\* answered afterwards, over either path, leaves the status completed.
C39_CompletedIsFinal ==
  [][(server.db.status = "completed" /\ Answered /\ LastAck.op = "chunk")
       => server'.db.status = "completed"]_vars

\* C40: an audio-chunk request that the relay answered with a failure has
\* stored no chunk row.
C40_FailedChunkStoresNothing ==
  \A e \in relay.emitted : e.op = "chunk-error" => e.req \notin relay.db.chunks

\* an audio-chunk message is handled in this step and reaches the rate gate
ReachesRateGate ==
  /\ relay'.chunkRequests = relay.chunkRequests + 1
  /\ relay'.last.ack # "Missing sessionId, chunk, or token"
WindowOpen == relay.rate.set /\ relay.now - relay.rate.windowStart <= RATE_WINDOW_MS

\* C34: a message that reaches the rate gate while the window is open and
\* MAX_CHUNKS_PER_WINDOW messages were counted in it is rejected with "Rate
\* limit exceeded"; one that passes in an open window is counted in it, so no
\* window counts more than MAX_CHUNKS_PER_WINDOW; a window starts only with
\* the first message or more than RATE_WINDOW_MS after the window start.
C34_RateWindow ==
  [][/\ relay'.rate.count <= MAX_CHUNKS_PER_WINDOW
     /\ (ReachesRateGate /\ WindowOpen /\ relay.rate.count >= MAX_CHUNKS_PER_WINDOW)
          => (relay'.last.ack = "Rate limit exceeded" /\ relay'.rate = relay.rate)
     /\ (ReachesRateGate /\ WindowOpen /\ relay.rate.count < MAX_CHUNKS_PER_WINDOW)
          => /\ relay'.last.ack # "Rate limit exceeded"
             /\ relay'.rate = [ relay.rate EXCEPT !.count = @ + 1 ]
     /\ (ReachesRateGate /\ ~WindowOpen)
          => /\ relay'.last.ack # "Rate limit exceeded"
             /\ relay'.rate = [ set |-> TRUE, count |-> 1, windowStart |-> relay.now ]
     /\ ~ReachesRateGate => relay'.rate = relay.rate]_vars

\* the third message of a window was rejected, the window still open
C34_Witness ==
  /\ relay.last.ack = "Rate limit exceeded" /\ relay.last.req = MAX_CHUNKS_PER_WINDOW + 1
  /\ relay.rate.count = MAX_CHUNKS_PER_WINDOW
  /\ relay.now - relay.rate.windowStart <= RATE_WINDOW_MS

\* a recovery attempt starts in this step: autoRecoverRef.current passes its
\* guards and calls ensureMediaRecorder
RecoveryBegins == recoveryLog'.started = recoveryLog.started + 1
\* the only track of the microphone's stream ends in this step
MicEndsNow ==
  /\ mediaRecorderRef # NULL /\ recorders[mediaRecorderRef].src = "mic"
  /\ ~recorders[mediaRecorderRef].ended /\ recorders'[mediaRecorderRef].ended
RecorderPaused ==
  mediaRecorderRef # NULL /\ recorders[mediaRecorderRef].state = "paused" /\ ~MicEndsNow
RequestsStream(t) ==
  /\ \E i \in 1..Len(tasks'[t]) : tasks'[t][i].fn = "media"
  /\ \A i \in 1..Len(tasks[t]) : tasks[t][i].fn # "media"

\* C33 as stated: a recovery attempt that finds the recorder paused resumes it.
C33_PausedIsResumed ==
  [][(RecoveryBegins /\ RecorderPaused)
       => recorders'[mediaRecorderRef].state = "recording"]_vars

\* C33: a recovery attempt that finds the recorder paused keeps that recorder
\* and its stream and requests no new stream; it resumes the recorder when the
\* state machine is in recording and leaves it paused otherwise; an attempt
\* requests a new stream only when the recorder is missing or inactive.
C33_PausedKeptInPlace ==
  [][/\ (RecoveryBegins /\ RecorderPaused)
          => /\ mediaRecorderRef' = mediaRecorderRef /\ streamRef' = streamRef
             /\ \A t \in TaskIds : ~RequestsStream(t)
             /\ recorders'[mediaRecorderRef].state =
                  (IF machine.value = "recording" THEN "recording" ELSE "paused")
     /\ (RecoveryBegins /\ \E t \in TaskIds : RequestsStream(t))
          => \/ mediaRecorderRef = NULL
             \/ recorders[mediaRecorderRef].state = "inactive"
             \/ MicEndsNow]_vars

\* the mute timer has started a recovery while the user had paused the
\* recorder, which is still the session's recorder and still paused
C33_Witness ==
  /\ recoveryLog.timeouts = 1 /\ recoveryLog.started = 1 /\ sessionIdRef # NULL
  /\ mediaRecorderRef # NULL /\ recorders[mediaRecorderRef].state = "paused"
  /\ machine.value = "paused" /\ nextSession = 1

\* C35: the listeners and the mute timer of a stream exist only while its
\* cleanup closure is the one held in trackCleanupRef, so that the cleanup
\* run by resetMedia leaves no ended, mute or unmute listener and no armed
\* mute timer on any stream; a second cleanup changes nothing.
C35_CleanupReleasesListeners ==
  /\ \A r \in RecorderIds :
       /\ recorders[r].monitored => trackCleanupRef = r
       /\ recorders[r].muteTimer = "armed" => recorders[r].monitored
  /\ LET c == resetMedia(Cur) IN
       /\ \A r \in RecorderIds : ~c.recorders[r].monitored /\ c.recorders[r].muteTimer # "armed"
       /\ trackCleanup(c) = c /\ resetMedia(c) = c


\* the requestStream calls in progress, by the function at the bottom of the call stack
Acquiring(ts, fn) ==
  Cardinality({ t \in TaskIds : /\ ts[t] # << >>
                                /\ ts[t][1].fn = fn
                                /\ ts[t][Len(ts[t])].fn = "media" })

StopBegun == sessionStatus = "processing" /\ sessionIdRef # NULL

\* C36: while a session is being stopped (status processing, session still
\* held) no step begins a new stream acquisition for it, neither from the
\* track recovery nor from the reconnect of an online event or of the
\* disconnect timer.
C36_NoRestartWhileStopping ==
  [][ StopBegun => /\ Acquiring(tasks', "recover") <= Acquiring(tasks, "recover")
                   /\ Acquiring(tasks', "reconnect") <= Acquiring(tasks, "reconnect") ]_vars

\* the part of C36 about track failures and mute timeouts alone
C36_NoRecoveryWhileStopping ==
  [][ StopBegun => /\ Acquiring(tasks', "recover") <= Acquiring(tasks, "recover")
                   /\ recoveryLog'.started = recoveryLog.started ]_vars

\* C37: every delivery is made under the session id that was current when
\* its chunk was captured, and no chunk of another session waits in the
\* queue of the current one.
C37_ChunkKeepsSession ==
  /\ \A i \in 1..Len(delivered) : delivered[i].sess = delivered[i].chunk.sess
  /\ sessionIdRef # NULL =>
       \A i \in 1..Len(chunkQueueRef) : chunkQueueRef[i].sess = sessionIdRef

\* C38: a discard also disposes of the chunk whose delivery is in flight:
\* no chunk captured before a discarded one is in the pending queue, whether
\* the delivery that was in flight at the discard succeeds or fails.
C38_DiscardCoversInFlight ==
  \A i \in 1..Len(chunkQueueRef) : \A id \in discarded : chunkQueueRef[i].id > id
====
